---- MODULE Spec2Model ----
(***************************************************************************)
(* Model of the Digital NC Register dashboard                              *)
(* (src/NC_Dashboard_BetaV1.py): date/time normalisation, the timestamp    *)
(* combiner, add_derived_columns, the aggregations and tabs that read the  *)
(* derived columns (metrics_summary, the Status and Project Status tabs),  *)
(* load_data and the brand colour helpers.                                 *)
(*                                                                         *)
(* Specifications                                                          *)
(*   - Spec: the script body, from the loaded table to the tabs;           *)
(*   - DeriveSpec: the enrichment of the loaded table alone;               *)
(*   - ConvSpec: one call of combine_datetime, statement by statement;     *)
(*   - LoadSpec: one call of load_data;                                    *)
(*   - ColourSpec: one call of brand_map_for.                              *)
(*                                                                         *)
(* Encoding of values                                                      *)
(*   - a Python str is a TLA+ string;                                      *)
(*   - a table cell, a Timestamp and a float column entry are "optional"   *)
(*     values: <<>> is the missing value (NaN / NaT), <<v>> a present v;   *)
(*   - a present Timestamp is <<day, sec>>: days since 1970-01-01 and the  *)
(*     second of that day (TLC's integers are 32 bits wide, too narrow for *)
(*     seconds since the epoch);                                           *)
(*   - a number in a cost column is <<"float64", n>>, to tell it from the  *)
(*     text <<"n">> a column of mixed content holds;                       *)
(*   - a duration column holds hours = seconds / 3600.0; the model stores  *)
(*     the numerator (whole seconds) of that quotient, whose sign, zero    *)
(*     and order are those of the float the code stores.                   *)
(***************************************************************************)
EXTENDS Integers, Sequences, FiniteSets, TLC

\* ---------------------------------------------------------------- strings
NaN == <<>>
NaT == <<>>

Ch(s, i) == SubSeq(s, i, i)

\* Bind(v, F) is F(v), with v evaluated once and then used by value
Bind(v, F(_)) == CHOOSE r \in { F(x) : x \in {v} } : TRUE

UpperLetters == "ABCDEFGHIJKLMNOPQRSTUVWXYZ"
LowerLetters == "abcdefghijklmnopqrstuvwxyz"
Digits == "0123456789"

IsDigit(c) == \E i \in 1..Len(Digits) : Ch(Digits, i) = c

DigitVal(c) == (CHOOSE i \in 1..Len(Digits) : Ch(Digits, i) = c) - 1

\* str.lower(), one character
LowerCh(c) ==
    IF \E i \in 1..Len(UpperLetters) : Ch(UpperLetters, i) = c
    THEN Ch(LowerLetters, CHOOSE i \in 1..Len(UpperLetters) : Ch(UpperLetters, i) = c)
    ELSE c

RECURSIVE Lower(_)
Lower(s) == IF s = "" THEN "" ELSE LowerCh(Head(s)) \o Lower(Tail(s))

\* whitespace as str.strip() and the regex class \s see it
IsSpace(c) == c \in {" ", "\t", "\n", "\r", "\f"}

RECURSIVE LStrip(_)
LStrip(s) == IF s # "" /\ IsSpace(Head(s)) THEN LStrip(Tail(s)) ELSE s

RECURSIVE RStrip(_)
RStrip(s) ==
    IF s # "" /\ IsSpace(Ch(s, Len(s))) THEN RStrip(SubSeq(s, 1, Len(s) - 1)) ELSE s

Strip(s) == LStrip(RStrip(s))

\* str.replace(".", "")
RECURSIVE RemoveDots(_)
RemoveDots(s) ==
    IF s = "" THEN ""
    ELSE (IF Head(s) = "." THEN "" ELSE Head(s)) \o RemoveDots(Tail(s))

AllDigits(s) == \A i \in 1..Len(s) : IsDigit(Ch(s, i))

\* int(str) of a digit string
RECURSIVE ToInt(_)
ToInt(s) ==
    IF s = "" THEN 0
    ELSE 10 * ToInt(SubSeq(s, 1, Len(s) - 1)) + DigitVal(Ch(s, Len(s)))

\* str(n) for n >= 0
RECURSIVE IntToStr(_)
IntToStr(n) ==
    IF n < 10 THEN Ch(Digits, n + 1)
    ELSE IntToStr(n \div 10) \o Ch(Digits, (n % 10) + 1)

\* f"{n:0wd}" for n >= 0: zero-padded to at least w characters
RECURSIVE ZeroPad(_, _)
ZeroPad(s, w) == IF Len(s) >= w THEN s ELSE ZeroPad("0" \o s, w)

Fmt(n, w) == ZeroPad(IntToStr(n), w)

\* ---------------------------------------------------- date/time patterns
\* The three groups of  ^\s*(\d{lo1,hi1})SEP(\d{lo2,hi2})SEP(\d{lo3,hi3})\s*$
\* on a string that is already stripped, or <<>> when it does not match.
SepGroups(s, sep, lo1, hi1, lo2, hi2, lo3, hi3) ==
    LET n == Len(s)
        cuts == { ij \in (1..n) \X (1..n) :
                    /\ ij[1] < ij[2]
                    /\ Ch(s, ij[1]) = sep /\ Ch(s, ij[2]) = sep
                    /\ ij[1] - 1 \in lo1..hi1
                    /\ ij[2] - ij[1] - 1 \in lo2..hi2
                    /\ n - ij[2] \in lo3..hi3
                    /\ AllDigits(SubSeq(s, 1, ij[1] - 1))
                    /\ AllDigits(SubSeq(s, ij[1] + 1, ij[2] - 1))
                    /\ AllDigits(SubSeq(s, ij[2] + 1, n)) }
    IN  IF cuts = {} THEN <<>>
        ELSE LET ij == CHOOSE c \in cuts : TRUE
             IN  << SubSeq(s, 1, ij[1] - 1),
                    SubSeq(s, ij[1] + 1, ij[2] - 1),
                    SubSeq(s, ij[2] + 1, n) >>

_date_ddmmyyyy_slash(s) == SepGroups(Strip(s), "/", 1, 2, 1, 2, 2, 4)
_date_ddmmyyyy_dash(s)  == SepGroups(Strip(s), "-", 1, 2, 1, 2, 2, 4)
_date_yyyymmdd_dash(s)  == SepGroups(Strip(s), "-", 4, 4, 1, 2, 1, 2)

\* The groups <<hh, mm, ss>> of  (\d{1,2}):(\d{2})(?::(\d{2}))?  matching all of
\* s (ss = "" when the optional group is missing), or <<>>.
ClockGroups(s) ==
    LET n == Len(s)
        c1 == IF n >= 2 /\ Ch(s, 2) = ":" THEN 2
              ELSE IF n >= 3 /\ Ch(s, 3) = ":" THEN 3 ELSE 0
        hh == SubSeq(s, 1, c1 - 1)
        mm == SubSeq(s, c1 + 1, c1 + 2)
        rest == SubSeq(s, c1 + 3, n)
    IN  IF c1 = 0 \/ n < c1 + 2 THEN <<>>
        ELSE IF ~AllDigits(hh) \/ ~AllDigits(mm) THEN <<>>
        ELSE IF rest = "" THEN <<hh, mm, "">>
        ELSE IF Len(rest) = 3 /\ Ch(rest, 1) = ":" /\ AllDigits(SubSeq(rest, 2, 3))
             THEN <<hh, mm, SubSeq(rest, 2, 3)>>
        ELSE <<>>

\* ^\s*(\d{1,2}):(\d{2})(?::(\d{2}))?\s*([ap]\.?m\.?)\s*$  with re.I: the groups
\* <<hh, mm, ss, ampm>> or <<>>.
_time_hhmm_ampm(s) ==
    LET t == Strip(s)
        n == Len(t)
        \* the suffix [ap]\.?m\.? : its length, 0 when there is none
        suf == { k \in 2..4 :
                   /\ k <= n
                   /\ LET u == Lower(SubSeq(t, n - k + 1, n))
                      IN  u \in {"am", "pm", "a.m", "p.m", "am.", "pm.", "a.m.", "p.m."} }
        ok == { k \in suf : ClockGroups(RStrip(SubSeq(t, 1, n - k))) # <<>> }
    IN  IF ok = {} THEN <<>>
        ELSE LET k == CHOOSE x \in ok : TRUE
             IN  ClockGroups(RStrip(SubSeq(t, 1, n - k))) \o <<SubSeq(t, n - k + 1, n)>>

\* ^\s*(\d{1,2}):(\d{2})(?::(\d{2}))?\s*$
_time_hhmm_24(s) == ClockGroups(Strip(s))

\* ------------------------------------------------------------ normalisers
IsSentinel(s) == s = "" \/ Lower(s) \in {"nan", "nat", "none"}

_norm_year(y) == IF y < 100 THEN (IF y < 70 THEN 2000 + y ELSE 1900 + y) ELSE y

\* f"{y:04d}-{mth:02d}-{d:02d}"
FmtDate(y, mth, d) == Fmt(y, 4) \o "-" \o Fmt(mth, 2) \o "-" \o Fmt(d, 2)

_normalize_date_str(s) ==
    IF IsSentinel(s) THEN ""
    ELSE Bind(IF _date_ddmmyyyy_slash(s) # <<>> THEN _date_ddmmyyyy_slash(s)
              ELSE _date_ddmmyyyy_dash(s), LAMBDA m1 :
         IF m1 # <<>>
         THEN FmtDate(_norm_year(ToInt(m1[3])), ToInt(m1[2]), ToInt(m1[1]))
         ELSE Bind(_date_yyyymmdd_dash(s), LAMBDA m2 :
              IF m2 # <<>>
              THEN FmtDate(ToInt(m2[1]), ToInt(m2[2]), ToInt(m2[3]))
              ELSE ""))

InClockRange(hh, mm, ss) == hh \in 0..23 /\ mm \in 0..59 /\ ss \in 0..59

\* f"{hh:02d}:{mm:02d}:{ss:02d}"
FmtTime(hh, mm, ss) == Fmt(hh, 2) \o ":" \o Fmt(mm, 2) \o ":" \o Fmt(ss, 2)

\* AmPmHour that leaves 12 am at hour 12
AmPmHour_NoMidnight(hh, ampm) == IF ampm = "pm" /\ hh < 12 THEN hh + 12 ELSE hh

\* the 12-hour branch: "pm" adds 12 below 12, "12 am" is hour 0
AmPmHour(hh, ampm) ==
    LET h1 == IF ampm = "pm" /\ hh < 12 THEN hh + 12 ELSE hh
    IN  IF ampm = "am" /\ h1 = 12 THEN 0 ELSE h1

\* the checks and the formatting both branches of _normalize_time_str end with
ClockOrEmpty(hh, mm, ss) ==
    IF InClockRange(hh, mm, ss) THEN FmtTime(hh, mm, ss) ELSE ""

\* int(m.group(3)) if m.group(3) else 0
SecondsOf(g) == IF g = "" THEN 0 ELSE ToInt(g)

_normalize_time_str(s) ==
    IF IsSentinel(s) THEN ""
    ELSE Bind(RemoveDots(Lower(Strip(s))), LAMBDA s0 :
         Bind(_time_hhmm_ampm(s0), LAMBDA m1 :
         IF m1 # <<>>
         THEN ClockOrEmpty(AmPmHour(ToInt(m1[1]), Lower(m1[4])),
                           ToInt(m1[2]), SecondsOf(m1[3]))
         ELSE Bind(_time_hhmm_24(s0), LAMBDA m2 :
              IF m2 # <<>>
              THEN ClockOrEmpty(ToInt(m2[1]), ToInt(m2[2]), SecondsOf(m2[3]))
              ELSE "")))

\* Series.astype(str) on one cell: the missing value prints as "nan"
AsStr(cell) == IF cell = NaN THEN "nan" ELSE cell[1]

_normalize_series_date(cell) == _normalize_date_str(AsStr(cell))
_normalize_series_time(cell) == _normalize_time_str(AsStr(cell))

\* ---------------------------------------------------------------- calendar
IsLeap(y) == (y % 4 = 0 /\ y % 100 # 0) \/ y % 400 = 0

DaysInMonth(y, m) ==
    IF m = 2 THEN (IF IsLeap(y) THEN 29 ELSE 28)
    ELSE IF m \in {4, 6, 9, 11} THEN 30 ELSE 31

RECURSIVE DaysBeforeMonth(_, _)
DaysBeforeMonth(y, m) ==
    IF m = 1 THEN 0 ELSE DaysBeforeMonth(y, m - 1) + DaysInMonth(y, m - 1)

\* days from 0001-01-01 to the first day of year y
DaysBeforeYear(y) ==
    365 * (y - 1) + ((y - 1) \div 4) - ((y - 1) \div 100) + ((y - 1) \div 400)

\* days since 1970-01-01
DayNumber(y, m, d) ==
    DaysBeforeYear(y) + DaysBeforeMonth(y, m) + (d - 1) - DaysBeforeYear(1970)

\* a Timestamp is <<day, second of day>>; datetime64[ns] holds the instants
\* from 1677-09-21 00:12:44 to 2262-04-11 23:47:16
TsBefore(a, b) == a[1] < b[1] \/ (a[1] = b[1] /\ a[2] < b[2])

InNsBounds(ts) ==
    ~TsBefore(ts, <<DayNumber(1677, 9, 21), 764>>)
    /\ ~TsBefore(<<DayNumber(2262, 4, 11), 85636>>, ts)

\* to_datetime reading the fields without asking whether the date exists
to_datetime_NoCalendar(x) ==
    IF Len(x) # 19 THEN NaT
    ELSE << << DayNumber(ToInt(SubSeq(x, 1, 4)), ToInt(SubSeq(x, 6, 7)),
                         ToInt(SubSeq(x, 9, 10))),
               3600 * ToInt(SubSeq(x, 12, 13)) + 60 * ToInt(SubSeq(x, 15, 16))
                 + ToInt(SubSeq(x, 18, 19)) >> >>

\* pd.to_datetime(x, format="%Y-%m-%d %H:%M:%S", errors="coerce") on one string:
\* NaT unless x is exactly YYYY-MM-DD HH:MM:SS and names a calendar instant
to_datetime(x) ==
    LET shape == /\ Len(x) = 19
                 /\ Ch(x, 5) = "-" /\ Ch(x, 8) = "-" /\ Ch(x, 11) = " "
                 /\ Ch(x, 14) = ":" /\ Ch(x, 17) = ":"
                 /\ \A i \in (1..19) \ {5, 8, 11, 14, 17} : IsDigit(Ch(x, i))
        y  == ToInt(SubSeq(x, 1, 4))
        mo == ToInt(SubSeq(x, 6, 7))
        d  == ToInt(SubSeq(x, 9, 10))
        hh == ToInt(SubSeq(x, 12, 13))
        mi == ToInt(SubSeq(x, 15, 16))
        ss == ToInt(SubSeq(x, 18, 19))
        ts == <<DayNumber(y, mo, d), 3600 * hh + 60 * mi + ss>>
    IN  IF ~shape THEN NaT
        ELSE IF ~(y >= 1 /\ mo \in 1..12 /\ d \in 1..DaysInMonth(y, mo)
                  /\ InClockRange(hh, mi, ss)) THEN NaT
        ELSE IF ~InNsBounds(ts) THEN NaT
        ELSE <<ts>>

\* full_string without the default of midnight
full_string_NoDefault(d_norm, t_norm) ==
    IF d_norm # "" THEN d_norm \o " " \o t_norm ELSE ""

\* the string combine_datetime hands to pd.to_datetime: the normalised date and
\* time joined by a space, the time defaulting to midnight; "" without a date
full_string(d_norm, t_norm) ==
    LET has_date == d_norm # ""
        t1 == IF t_norm = "" /\ has_date THEN "00:00:00" ELSE t_norm
    IN  IF has_date THEN d_norm \o " " \o t1 ELSE ""

\* combine_datetime on one row
combine_datetime(date_cell, time_cell) ==
    Bind(_normalize_series_date(date_cell), LAMBDA d_norm :
    Bind(_normalize_series_time(time_cell), LAMBDA t_norm :
    Bind(full_string(d_norm, t_norm), LAMBDA full :
        to_datetime(full))))

\* ------------------------------------------------------ Timestamp algebra
notna(v) == v # <<>>
isna(v) == v = <<>>

\* a > b and a >= b on two Timestamp cells; a comparison with NaT is False
TsGt(a, b) == notna(a) /\ notna(b) /\ TsBefore(b[1], a[1])
TsGe(a, b) == notna(a) /\ notna(b) /\ ~TsBefore(a[1], b[1])
TsLe(a, b) == notna(a) /\ notna(b) /\ ~TsBefore(b[1], a[1])

\* (a - b).dt.total_seconds() / 3600.0, kept as its numerator in seconds;
\* NaN when an operand is NaT
HoursBetween(a, b) ==
    IF isna(a) \/ isna(b) THEN NaN
    ELSE << (a[1][1] - b[1][1]) * 86400 + (a[1][2] - b[1][2]) >>

\* ------------------------------------------------ add_derived_columns, by block
\* _safe_get on one row: a column the table lacks reads as NaN
_safe_get_Text(row, col) == IF col \in DOMAIN row THEN row[col] ELSE <<"n/a">>

_safe_get(row, col) == IF col \in DOMAIN row THEN row[col] ELSE NaN

\* _nz on one row: missing reads as "", everything else is stripped
_nz(row, col) ==
    LET c == _safe_get(row, col) IN IF isna(c) THEN "" ELSE Strip(c[1])

\* EffectiveResolution without the eff.isna() term of its mask
EffectiveResolution_NoIsna(closed, responded, raised) ==
    IF notna(responded) /\ notna(raised) /\ TsGt(responded, raised)
    THEN responded ELSE closed

\* EffectiveResolution taking any present response, raised or not
EffectiveResolution_AnyResponse(closed, responded, raised) ==
    IF isna(closed) /\ notna(responded) THEN responded ELSE closed

\* Effective resolution without the response fallback
EffectiveResolution_ClosedOnly(closed, responded, raised) == closed

\* Effective resolution: closed, else responded when responded > raised
EffectiveResolution(closed, responded, raised) ==
    LET mask_eff == isna(closed) /\ notna(responded) /\ notna(raised)
                    /\ TsGt(responded, raised)
    IN  IF mask_eff THEN responded ELSE closed

ClosureTime(eff, raised) == HoursBetween(eff, raised)

\* ResponseTime with negative differences clamped to zero
ResponseTime_Clamped(responded, raised) ==
    IF isna(HoursBetween(responded, raised)) THEN NaN
    ELSE IF HoursBetween(responded, raised)[1] < 0 THEN <<0>>
    ELSE HoursBetween(responded, raised)

ResponseTime(responded, raised) == HoursBetween(responded, raised)

\* RespondedNotClosed with >= in place of >
RespondedNotClosed_Ge(closed, responded, raised) ==
    IF isna(closed) /\ notna(responded) /\ notna(raised) /\ TsGe(responded, raised)
    THEN 1 ELSE 0

\* RespondedNotClosed without the ClosedAt test
RespondedNotClosed_IgnoresClosed(closed, responded, raised) ==
    IF notna(responded) /\ notna(raised) /\ TsGt(responded, raised)
    THEN 1 ELSE 0

\* (...).astype(int)
RespondedNotClosed(closed, responded, raised) ==
    IF isna(closed) /\ notna(responded) /\ notna(raised) /\ TsGt(responded, raised)
    THEN 1 ELSE 0

\* CloseAfterResponse without the eff >= responded term of its mask
CloseAfterResponse_NoGuard(eff, responded) ==
    IF notna(eff) /\ notna(responded) THEN HoursBetween(eff, responded) ELSE NaN

CloseAfterResponse(eff, responded) ==
    LET mask_car == notna(eff) /\ notna(responded) /\ TsGe(eff, responded)
    IN  IF mask_car THEN HoursBetween(eff, responded) ELSE NaN

\* SLAMet with < in place of <=
SLAMet_Strict(deadline, eff) ==
    IF notna(deadline) /\ notna(eff)
    THEN (IF TsGt(deadline, eff) THEN <<1>> ELSE <<0>>)
    ELSE NaN

\* np.where(both present, eff <= deadline, np.nan): a float column holding
\* 1.0 (True), 0.0 (False) or NaN
SLAMet(deadline, eff) ==
    IF notna(deadline) /\ notna(eff)
    THEN (IF TsLe(eff, deadline) THEN <<1>> ELSE <<0>>)
    ELSE NaN

has_reject_evidence(row, rejected) ==
    \/ notna(rejected)
    \/ _nz(row, "Rejected By") # ""
    \/ _nz(row, "Rejected Comment") # ""
    \/ _nz(row, "Rejected On Date") # ""
    \/ _nz(row, "Rejected On Time") # ""

IsWordCh(c) ==
    \/ IsDigit(c)
    \/ c = "_"
    \/ \E i \in 1..Len(LowerLetters) : Ch(LowerLetters, i) = c \/ Ch(UpperLetters, i) = c

ClosedWords == {"closed", "approved", "resolved", "complete"}

\* closedish without the word boundaries
closedish_Substring(s) ==
    \E w \in ClosedWords :
      \E i \in 1..Len(s) :
        i + Len(w) - 1 <= Len(s) /\ SubSeq(s, i, i + Len(w) - 1) = w

\* str.contains(r"\b(closed|approved|resolved|complete)\b") on one string
closedish(s) ==
    \E w \in ClosedWords :
      \E i \in 1..Len(s) :
        LET j == i + Len(w) - 1
        IN  /\ j <= Len(s)
            /\ SubSeq(s, i, j) = w
            /\ (i = 1 \/ ~IsWordCh(Ch(s, i - 1)))
            /\ (j = Len(s) \/ ~IsWordCh(Ch(s, j + 1)))

has_close_evidence(row, closed) ==
    \/ notna(closed)
    \/ closedish(Lower(_nz(row, "Current Status")))
    \/ _nz(row, "Closed By") # ""
    \/ _nz(row, "Closed Comment") # ""
    \/ _nz(row, "Closed On Date") # ""
    \/ _nz(row, "Closed On Time") # ""

R2CFlag(row, rejected, closed) ==
    IF has_reject_evidence(row, rejected) /\ has_close_evidence(row, closed)
    THEN 1 ELSE 0

\* R2CStrictFlag with | in place of &
R2CStrictFlag_Either(rejected, closed) ==
    IF notna(rejected) \/ notna(closed) THEN 1 ELSE 0

R2CStrictFlag(rejected, closed) ==
    IF notna(rejected) /\ notna(closed) THEN 1 ELSE 0

\* R2CHours without np.maximum(., 0.0)
R2CHours_NoClamp(rejected, closed) ==
    IF notna(rejected) /\ notna(closed) THEN HoursBetween(closed, rejected) ELSE NaN

\* np.where(both_dt, closed - rejected, nan), then np.maximum(., 0.0) where finite
R2CHours(rejected, closed) ==
    LET both_dt == notna(rejected) /\ notna(closed)
        dur_hours == IF both_dt THEN HoursBetween(closed, rejected) ELSE NaN
    IN  IF notna(dur_hours)
        THEN (IF dur_hours[1] > 0 THEN dur_hours ELSE <<0>>)
        ELSE NaN

\* last_dt.max(axis=1, skipna=True): the latest present candidate, NaT if none
MaxTs(cands) ==
    LET present == { c \in cands : notna(c) }
    IN  IF present = {} THEN NaT
        ELSE CHOOSE m \in present : \A c \in present : ~TsBefore(m[1], c[1])

LastStatusChange(closed, rejected, responded, eff) ==
    MaxTs({closed, rejected, responded, eff})

\* Series.eq on one row: NaT equals nothing
TsEq(a, b) == notna(a) /\ notna(b) /\ a = b

\* first labelling pass: four masked assignments, the last one that matches
\* wins; pd.NA (here NaN) when none does
LastStatusEventFirstPass(closed, rejected, responded, eff, latest) ==
    IF notna(latest) /\ TsEq(eff, latest) THEN <<"Effective">>
    ELSE IF notna(latest) /\ TsEq(responded, latest) THEN <<"Responded">>
    ELSE IF notna(latest) /\ TsEq(rejected, latest) THEN <<"Rejected">>
    ELSE IF notna(latest) /\ TsEq(closed, latest) THEN <<"Closed">>
    ELSE NaN

\* the second pass with the order of the first: the last match wins
LastStatusEvent_LastWins(closed, rejected, responded, eff, latest) ==
    IF TsEq(eff, latest) THEN <<"Effective">>
    ELSE IF TsEq(responded, latest) THEN <<"Responded">>
    ELSE IF TsEq(rejected, latest) THEN <<"Rejected">>
    ELSE IF TsEq(closed, latest) THEN <<"Closed">>
    ELSE <<"nan">>

\* the second pass with the Effective candidate tested first
LastStatusEvent_EffectiveFirst(closed, rejected, responded, eff, latest) ==
    IF TsEq(eff, latest) THEN <<"Effective">>
    ELSE IF TsEq(closed, latest) THEN <<"Closed">>
    ELSE IF TsEq(rejected, latest) THEN <<"Rejected">>
    ELSE IF TsEq(responded, latest) THEN <<"Responded">>
    ELSE <<"nan">>

\* second pass, which overwrites the first: nested np.where in priority order;
\* np.where over str and np.nan yields a str array, so the fall-through is the
\* text "nan"
LastStatusEvent(closed, rejected, responded, eff, latest) ==
    IF TsEq(closed, latest) THEN <<"Closed">>
    ELSE IF TsEq(rejected, latest) THEN <<"Rejected">>
    ELSE IF TsEq(responded, latest) THEN <<"Responded">>
    ELSE IF TsEq(eff, latest) THEN <<"Effective">>
    ELSE <<"nan">>

\* a number held in a cost column
Num(n) == <<"float64", n>>

IsNum(cell) == Len(cell) = 2

\* pd.to_numeric(errors="coerce") on one cell: a number stays as it is; a text
\* is read as the unsigned integer literal it holds; anything else is NaN
to_numeric(cell) ==
    IF isna(cell) THEN NaN
    ELSE IF IsNum(cell) THEN cell
    ELSE LET t == Strip(cell[1])
         IN  IF t # "" /\ AllDigits(t) THEN Num(ToInt(t)) ELSE NaN

CostParts == <<"Labour Cost", "Material Cost", "Machinery Cost", "Other Cost">>

\* .sum(axis=1, min_count=1) over the numeric parts of one row
RECURSIVE SumParts(_, _)
SumParts(row, k) ==
    IF k = 0 THEN NaN
    ELSE LET rest == SumParts(row, k - 1)
             v == to_numeric(_safe_get(row, CostParts[k]))
         IN  IF isna(v) THEN rest
             ELSE IF isna(rest) THEN v
             ELSE Num(rest[2] + v[2])

\* Total Cost always recomputed from the parts
TotalCost_AddsParts(row) ==
    LET total == to_numeric(_safe_get(row, "Total Cost"))
        part_sum == SumParts(row, Len(CostParts))
    IN  IF notna(total) /\ notna(part_sum) THEN Num(total[2] + part_sum[2])
        ELSE IF notna(total) THEN total ELSE part_sum

TotalCost_PartsOnly(row) == SumParts(row, Len(CostParts))

\* pd.to_numeric(Total Cost).fillna(part_sum)
TotalCost(row) ==
    LET total == to_numeric(_safe_get(row, "Total Cost"))
    IN  IF notna(total) THEN total ELSE SumParts(row, Len(CostParts))

\* s.rsplit("/", 1)[-1]
RECURSIVE AfterLastSlash(_)
AfterLastSlash(s) ==
    IF s = "" THEN ""
    ELSE IF Ch(s, Len(s)) = "/" THEN ""
    ELSE AfterLastSlash(SubSeq(s, 1, Len(s) - 1)) \o Ch(s, Len(s))

extract_location_variable(cell) ==
    IF isna(cell) THEN cell ELSE << Strip(AfterLastSlash(cell[1])) >>

EnsuredCols ==
    {"Root Cause Analysis", "Correction", "Corrective Action",
     "Labour Cost", "Material Cost", "Machinery Cost", "Other Cost", "Total Cost"}

DerivedCols ==
    {"Location Variable (Fixed)", "_RaisedOnDT", "_DeadlineDT", "_RespondedOnDT",
     "_RejectedOnDT", "_ClosedOnDT", "_EffectiveResolutionDT",
     "Computed Closure Time (Hrs)", "Responding Time (Hrs)",
     "_RespondedNotClosed_Flag", "Close After Response (Hrs)", "SLA Met",
     "Total Cost", "_R2C_Flag", "_R2C_Strict_Flag", "R2C Hours (>=0)",
     "_LastStatusChangeDT", "_LastStatusEvent"}

\* the columns add_derived_columns computes from the instants of one row
DerivedFrom(row, raised, deadline, responded, rejected, closed) ==
    Bind(EffectiveResolution(closed, responded, raised), LAMBDA eff :
    Bind(LastStatusChange(closed, rejected, responded, eff), LAMBDA latest :
        ("Location Variable (Fixed)" :>
             extract_location_variable(_safe_get(row, "Location Variable")))
     @@ ("_RaisedOnDT" :> raised)
     @@ ("_DeadlineDT" :> deadline)
     @@ ("_RespondedOnDT" :> responded)
     @@ ("_RejectedOnDT" :> rejected)
     @@ ("_ClosedOnDT" :> closed)
     @@ ("_EffectiveResolutionDT" :> eff)
     @@ ("Computed Closure Time (Hrs)" :> ClosureTime(eff, raised))
     @@ ("Responding Time (Hrs)" :> ResponseTime(responded, raised))
     @@ ("_RespondedNotClosed_Flag" :> RespondedNotClosed(closed, responded, raised))
     @@ ("Close After Response (Hrs)" :> CloseAfterResponse(eff, responded))
     @@ ("SLA Met" :> SLAMet(deadline, eff))
     @@ ("Total Cost" :> TotalCost(row))
     @@ ("_R2C_Flag" :> R2CFlag(row, rejected, closed))
     @@ ("_R2C_Strict_Flag" :> R2CStrictFlag(rejected, closed))
     @@ ("R2C Hours (>=0)" :> R2CHours(rejected, closed))
     @@ ("_LastStatusChangeDT" :> latest)
     \* the second labelling is assigned over the first
     @@ ("_LastStatusEvent" :>
             LastStatusEvent(closed, rejected, responded, eff, latest))
     @@ ("_LastStatusEvent" :>
             LastStatusEventFirstPass(closed, rejected, responded, eff, latest))))

\* the instant of one lifecycle event of one row
EventAt(row, prefix) ==
    combine_datetime(_safe_get(row, prefix \o " Date"), _safe_get(row, prefix \o " Time"))

EventPrefixes == <<"Raised On", "Deadline", "Responded On", "Rejected On", "Closed On">>

\* add_derived_columns on one row of the table: the columns it ensures, the
\* five instants, then everything derived from them; new columns replace old
add_derived_row(row0) ==
    Bind(row0 @@ [c \in EnsuredCols |-> NaN], LAMBDA row :
    Bind([k \in 1..Len(EventPrefixes) |-> EventAt(row, EventPrefixes[k])], LAMBDA at :
        DerivedFrom(row, at[1], at[2], at[3], at[4], at[5]) @@ row))

add_derived_columns_Whole(t) ==
    LET bad == \E j \in 1..Len(t) :
                   /\ notna(_safe_get(t[j], "Raised On Date"))
                   /\ isna(EventAt(t[j], "Raised On"))
    IN  [i \in 1..Len(t) |->
            add_derived_row(IF bad THEN ("Raised On Date" :> NaN) @@ t[i] ELSE t[i])]

add_derived_columns(t) == [i \in 1..Len(t) |-> add_derived_row(t[i])]

\* ------------------------------------------------------------ aggregation
\* A table is the sequence of its rows; every row is a function from the
\* table's column names to cells.
\* the rows of t whose index is in idx, from row i on, in row order
RECURSIVE PickRows(_, _, _)
PickRows(t, idx, i) ==
    IF i > Len(t) THEN <<>>
    ELSE (IF i \in idx THEN <<t[i]>> ELSE <<>>) \o PickRows(t, idx, i + 1)

\* df.loc[mask]
SelectRows(t, Keep(_)) == PickRows(t, { i \in 1..Len(t) : Keep(t[i]) }, 1)

\* the present values of one column, in row order (Series.dropna)
RECURSIVE dropna(_, _)
dropna(t, col) ==
    IF t = <<>> THEN <<>>
    ELSE (IF notna(_safe_get(Head(t), col)) THEN <<_safe_get(Head(t), col)[1]>> ELSE <<>>)
         \o dropna(Tail(t), col)

RECURSIVE SumSeq(_)
SumSeq(v) == IF v = <<>> THEN 0 ELSE Head(v) + SumSeq(Tail(v))

\* how many entries of v are below x, and how many equal it
Below(v, x) == Cardinality({ i \in 1..Len(v) : v[i] < x })
Same(v, x) == Cardinality({ i \in 1..Len(v) : v[i] = x })

\* the k-th smallest entry of a non-empty v
Kth(v, k) ==
    LET i == CHOOSE j \in 1..Len(v) : Below(v, v[j]) < k /\ k <= Below(v, v[j]) + Same(v, v[j])
    IN  v[i]

\* median(skipna=True) of one column: NaN when no value is present; the mean of
\* the two middle values otherwise, kept as their sum (twice the median)
median2(t, col) ==
    LET v == dropna(t, col)
        n == Len(v)
    IN  IF n = 0 THEN NaN
        ELSE << Kth(v, (n + 1) \div 2) + Kth(v, (n + 2) \div 2) >>

\* round-half-to-even of num / den, den > 0, num >= 0
RoundHalfEven(num, den) ==
    LET q == num \div den
        r == num % den
    IN  IF 2 * r < den THEN q
        ELSE IF 2 * r > den THEN q + 1
        ELSE IF q % 2 = 0 THEN q ELSE q + 1

\* MeanPct over every row, a missing value counting as 0
MeanPct_AllRows(t, col) ==
    IF Len(t) = 0 THEN NaN ELSE << 100 * SumSeq(dropna(t, col)), Len(t) >>

\* Series.mean() of a float column (NaN skipped), times 100, as the exact
\* fraction <<numerator, denominator>>; NaN when no value is present
MeanPct(t, col) ==
    LET known == dropna(t, col)
    IN  IF Len(known) = 0 THEN NaN ELSE << 100 * SumSeq(known), Len(known) >>

\* f"{x:.1f}%" of a fraction x >= 0
FmtPct1(x) ==
    LET tenths == RoundHalfEven(10 * x[1], x[2])
    IN  IntToStr(tenths \div 10) \o "." \o IntToStr(tenths % 10) \o "%"

CountWhere(t, P(_)) == Cardinality({ i \in 1..Len(t) : P(t[i]) })

\* metrics_summary: the six figures it computes and the SLA tile it shows
metrics_summary(t) ==
    Bind(CountWhere(t, LAMBDA r : notna(r["_EffectiveResolutionDT"])), LAMBDA resolved :
    Bind(IF t # <<>> /\ "SLA Met" \notin DOMAIN t[1] THEN NaN
         ELSE MeanPct(t, "SLA Met"), LAMBDA sla_rate :
        [ total_issues |-> Len(t),
          resolved |-> resolved,
          open_issues |-> Len(t) - resolved,
          median_response |-> median2(t, "Responding Time (Hrs)"),
          median_close |-> median2(t, "Computed Closure Time (Hrs)"),
          sla_rate |-> sla_rate,
          \* the tile shows an em dash for a missing rate; "-" stands for it
          sla_tile |-> IF notna(sla_rate) THEN FmtPct1(sla_rate) ELSE "-" ]))

\* the keys of groupby(col): the present values of the column, as text
GroupKeys(t, col) == { t[i][col][1] : i \in { j \in 1..Len(t) : notna(_safe_get(t[j], col)) } }

\* one line of the Project Status aggregation: the rows g of one project
ProjectLine(g, count_col) ==
    [ Total |-> Len(dropna(g, count_col)),
      Resolved |-> CountWhere(g, LAMBDA r : notna(r["_EffectiveResolutionDT"])),
      R2C |-> SumSeq([i \in 1..Len(g) |-> g[i]["_R2C_Flag"]]),
      RespOnly |-> SumSeq([i \in 1..Len(g) |-> g[i]["_RespondedNotClosed_Flag"]]),
      Median_Close_Hrs |-> median2(g, "Computed Closure Time (Hrs)"),
      \* (mean * 100).round(1), kept in tenths of a percent
      SLA_Met |-> Bind(MeanPct(g, "SLA Met"), LAMBDA sla :
                     IF isna(sla) THEN NaN
                     ELSE << RoundHalfEven(10 * sla[1], sla[2]) >>) ]

\* the Project Status aggregation: one line per project
project_status(t) ==
    IF t = <<>> \/ "Project Name" \notin DOMAIN t[1] THEN <<>>
    ELSE [ p \in GroupKeys(t, "Project Name") |->
             Bind(SelectRows(t, LAMBDA r : r["Project Name"] = <<p>>), LAMBDA g :
                 ProjectLine(g, IF "Reference ID" \in DOMAIN t[1]
                                THEN "Reference ID" ELSE "Project Name")) ]

\* ---------------------------------------------------------- filtered_view
FilterValues(t, col) == { AsStr(_safe_get(t[i], col)) : i \in { j \in 1..Len(t) : notna(_safe_get(t[j], col)) } }

\* options(col): the distinct present values of the column, as text
options(t, col) == IF t = <<>> \/ col \notin DOMAIN t[1] THEN {} ELSE FilterValues(t, col)

\* match(col, sel) on one row; an empty selection keeps every row
match(row, col, sel) == sel = {} \/ AsStr(_safe_get(row, col)) \in sel

\* the Raised On range test on one row; date_rng is <<>> (filter off) or
\* <<date_min, date_max>> in day numbers; a row without RaisedAt fails it
InDateRange(row, date_rng) ==
    \/ date_rng = <<>>
    \/ /\ notna(row["_RaisedOnDT"])
       /\ row["_RaisedOnDT"][1][1] >= date_rng[1]
       /\ row["_RaisedOnDT"][1][1] <= date_rng[2]

\* sel is the tuple of the ten multiselects, in the order of FilterCols
FilterCols ==
    << "Project Name", "Current Status", "Type L0", "Type L1", "Type L2",
       "Tag 1", "Tag 2", "Raised By", "Assigned Team", "Assigned Team User" >>

filtered_view(t, sel, date_rng) ==
    SelectRows(t, LAMBDA r :
        /\ \A k \in 1..Len(FilterCols) : match(r, FilterCols[k], sel[k])
        /\ InDateRange(r, date_rng))

\* --------------------------------------------------------------- the tabs
\* today.weekday(): Monday is 0; day 0, 1970-01-01, was a Thursday
weekday(day) == (day + 3) % 7

\* the periods of the selectbox, and the days the script is run on
Periods == {"Today", "Last 3 days", "This week", "All available"}
Todays == { DayNumber(2024, 1, 1), DayNumber(2024, 1, 3) }

\* mwin & notna of one row: its last status change falls in the period
in_window(row, period, today) ==
    /\ notna(row["_LastStatusChangeDT"])
    /\ CASE period = "Today" -> row["_LastStatusChangeDT"][1][1] = today
         [] period = "Last 3 days" -> row["_LastStatusChangeDT"][1][1] >= today - 2
         [] period = "This week" -> row["_LastStatusChangeDT"][1][1] >= today - weekday(today)
         [] OTHER -> TRUE

\* sort_values("_LastStatusChangeDT", ascending=False, inplace=True) on the
\* copy: the rows in an order that descends in the key; the default sort is
\* not stable, so rows of one key come in any order
sort_values(t) ==
    { [i \in 1..Len(t) |-> t[q[i]]] :
        q \in { o \in Permutations(1..Len(t)) :
                  \A i, j \in 1..Len(t) :
                      i < j => TsGe(t[o[i]]["_LastStatusChangeDT"],
                                    t[o[j]]["_LastStatusChangeDT"]) } }

\* .map({True: "Met", False: "Missed"}).fillna("Unknown") of one SLA Met cell
sla_state(cell) ==
    IF cell = <<1>> THEN "Met" ELSE IF cell = <<0>> THEN "Missed" ELSE "Unknown"

\* preprocess: a copy of the loaded table with stripped column names, enriched
StripColumns(row) ==
    [ c \in { Strip(k) : k \in DOMAIN row } |->
        row[CHOOSE k \in DOMAIN row : Strip(k) = c] ]

preprocess(t) == add_derived_columns([i \in 1..Len(t) |-> StripColumns(t[i])])

\* ------------------------------------------------------------------ inputs
\* Bounds of the model
MaxInstants == 2
MaxRows == 3

Cell(s) == <<s>>

\* <<date cell, time cell>> pairs of the register, in increasing order of the
\* instant they denote: 2024-01-01 00:00:00, 2024-01-01 14:30:00,
\* 2024-01-02 09:15:00, 2024-01-03 00:00:00
InstantCells ==
    << <<Cell("1/1/2024"), NaN>>,
       <<Cell("2024-01-01"), Cell("2:30pm")>>,
       <<Cell("02-01-24"), Cell("09:15")>>,
       <<Cell("2024-1-3"), Cell("12:00 a.m.")>> >>

Missing == <<NaN, NaN>>

TimingCells == {Missing} \cup { InstantCells[k] : k \in 1..MaxInstants }

\* pairs that leave evidence in the raw columns, with or without an instant
EvidenceCells ==
    { Missing, InstantCells[1],
      <<Cell("tbd"), NaN>>,          \* no recognised pattern
      <<Cell("31/02/2024"), NaN>>,   \* a pattern, but no calendar date
      <<Cell("  "), NaN>>,           \* blank once stripped
      <<NaN, Cell("10:00")>> }       \* a time without a date

TextCells == { NaN, Cell("QA"), Cell(" ") }

StatusCells ==
    { NaN, Cell("Closed"), Cell("Open"), Cell("Re-Approved "), Cell("Completed") }

Event(prefix, c) == (prefix \o " Date" :> c[1]) @@ (prefix \o " Time" :> c[2])

Events(raised, deadline, responded, rejected, closed) ==
    Event("Raised On", raised) @@ Event("Deadline", deadline)
    @@ Event("Responded On", responded) @@ Event("Rejected On", rejected)
    @@ Event("Closed On", closed)

\* rows that vary the five instants (no actor, comment or status column)
TimingRows ==
    { Events(ra, de, re, rj, cl) @@ ("Project Name" :> Cell("A")) :
        ra \in TimingCells, de \in TimingCells, re \in TimingCells,
        rj \in TimingCells, cl \in TimingCells }

\* rows that vary the evidence of rejection
RejectRows ==
    { Events(InstantCells[1], Missing, re, rj, cl)
      @@ ("Project Name" :> Cell("A"))
      @@ ("Rejected By" :> by) @@ ("Rejected Comment" :> cm) :
        re \in {Missing, InstantCells[2]}, rj \in EvidenceCells,
        cl \in {Missing, InstantCells[1]}, by \in TextCells, cm \in TextCells }

\* rows that vary the evidence of closure
CloseRows ==
    { Events(InstantCells[1], Missing, re, rj, cl)
      @@ ("Project Name" :> Cell("A")) @@ ("Current Status" :> st)
      @@ ("Closed By" :> by) @@ ("Closed Comment" :> cm) :
        re \in {Missing, InstantCells[2]},
        rj \in {Missing, InstantCells[1], <<Cell("tbd"), NaN>>},
        cl \in EvidenceCells, st \in StatusCells,
        by \in {NaN, Cell("QA")}, cm \in {NaN, Cell(" "), Cell("ok")} }

\* rows of the multi-row registers: per project, one that meets its deadline,
\* one that misses it, and one whose SLA is unknown
RegisterRows ==
    { Events(InstantCells[1], de_cl[1], Missing, Missing, de_cl[2])
      @@ ("Project Name" :> Cell(p)) :
        p \in {"A", "B"},
        de_cl \in { <<InstantCells[1], InstantCells[1]>>,
                    <<InstantCells[1], InstantCells[2]>>,
                    <<Missing, InstantCells[1]>>,
                    <<InstantCells[1], Missing>> } }

RECURSIVE TablesOver(_, _)
TablesOver(rows, n) ==
    IF n = 0 THEN {<<>>}
    ELSE LET shorter == TablesOver(rows, n - 1)
         IN  shorter \cup { Append(t, r) : t \in { u \in shorter : Len(u) = n - 1 }, r \in rows }

\* rows that vary the cost columns: a number, a text that is one, a text that
\* is none, or nothing
CostRows ==
    { Events(InstantCells[1], Missing, Missing, Missing, Missing)
      @@ ("Project Name" :> Cell("A"))
      @@ ("Labour Cost" :> la) @@ ("Material Cost" :> ma)
      @@ ("Machinery Cost" :> mc) @@ ("Other Cost" :> ot) @@ ("Total Cost" :> to) :
        la \in {NaN, Num(100), Cell("abc")}, ma \in {NaN, Cell("7"), Cell("-")},
        mc \in {NaN, Num(50), Cell("n/a")}, ot \in {NaN, Cell("1")},
        to \in {NaN, Num(0), Cell("75"), Cell("tbc")} }

\* rows of a register that holds every column the derivation reads
FullRows ==
    { Events(InstantCells[1], InstantCells[2], InstantCells[2], InstantCells[1], cl)
      @@ ("Project Name" :> Cell("A")) @@ ("Current Status" :> Cell("Closed"))
      @@ ("Rejected By" :> Cell("QA")) @@ ("Rejected Comment" :> NaN)
      @@ ("Closed By" :> Cell("QA")) @@ ("Closed Comment" :> NaN)
      @@ ("Location Variable" :> Cell("Tower 1/Level 2 "))
      @@ ("Labour Cost" :> Num(100)) @@ ("Total Cost" :> Cell("tbc")) :
        cl \in {Missing, InstantCells[2]} }

\* the same rows read from a file that lacks some of those columns
SparseRows ==
    LET groups == { {"Raised On Date", "Raised On Time"}, {"Deadline Date", "Deadline Time"},
                    {"Responded On Date", "Responded On Time"},
                    {"Rejected On Date", "Rejected On Time"},
                    {"Closed On Date"}, {"Closed On Time"}, {"Current Status"},
                    {"Rejected By", "Rejected Comment"}, {"Closed By", "Closed Comment"},
                    {"Location Variable", "Labour Cost", "Total Cost"} }
    IN  { [c \in (DOMAIN r) \ (UNION g) |-> r[c]] : r \in FullRows, g \in SUBSET groups }

\* registers of two rows, drawn from a row whose date and time texts are in
\* no recognised encoding and two rows whose texts are
MixedTables ==
    LET rows == { Events(<<Cell("tbd"), Cell("9:15")>>, <<Cell("2024/01/01"), NaN>>,
                         <<Cell("Jan 1 2024"), Cell("noon")>>, Missing,
                         <<Cell("1/a/2024"), Cell("25:00")>>),
                  Events(InstantCells[1], InstantCells[2], InstantCells[2], Missing, Missing),
                  Events(InstantCells[1], InstantCells[1], Missing, InstantCells[1],
                         InstantCells[2]) }
    IN  { << a @@ ("Project Name" :> Cell("A")), b @@ ("Project Name" :> Cell("A")) >> :
            a \in rows, b \in rows }

InputTables ==
    { <<r>> : r \in TimingRows \cup RejectRows \cup CloseRows \cup CostRows \cup SparseRows }
    \cup MixedTables
    \cup TablesOver(RegisterRows, MaxRows)

\* the Raised On ranges the date filter is given: off, or one of two single days
DateRanges ==
    { <<>>, <<DayNumber(2024, 1, 1), DayNumber(2024, 1, 1)>>,
            <<DayNumber(2024, 1, 2), DayNumber(2024, 1, 2)>> }

\* the raw date and time texts given to combine_datetime
MaxDay == 32
MaxMonth == 13
MaxHour == 24

\* a number written with one digit where it has one, or zero-padded to two
Spellings(n) == { Fmt(n, 1), Fmt(n, 2) }

DayTexts == UNION { Spellings(n) : n \in {0, 1} \cup (28..MaxDay) }
MonthTexts == UNION { Spellings(n) : n \in 0..MaxMonth }
YearTexts == { "2024", "2023", "1900", "1500", "0050", "01", "24", "69", "70", "75", "123" }

DateTexts ==
    { dd \o sep \o mm \o sep \o yy :
        dd \in DayTexts, mm \in MonthTexts, yy \in YearTexts, sep \in {"/", "-"} }
    \cup { yy \o "-" \o mm \o "-" \o dd :
        dd \in DayTexts, mm \in MonthTexts, yy \in { y \in YearTexts : Len(y) = 4 } }

\* texts that are missing values, blank, padded, or in no recognised encoding
OddDateTexts ==
    { "", "nan", "NaN", "NaT", "None", " nan ", "   ", "tbd", " 31-12-75 ",
      "2024/01/01", "1-1-1", "12/2024", "1/1/20245", "01.01.2024",
      "1/1-2024", "Jan 1 2024", "2024-01-01 00:00:00", "1/a/2024" }

HourTexts == UNION { Spellings(n) : n \in 0..MaxHour }

TimeTexts ==
    { hh \o ":" \o mi \o ss \o ap :
        hh \in HourTexts, mi \in {"00", "30", "59", "60"},
        ss \in {"", ":00", ":59", ":60"},
        ap \in {"", "am", "pm", " AM", "P.M.", " a.m.", "p.m", "Pm"} }

OddTimeTexts ==
    { "", "nan", "NAT", "none", "  ", "noon", "9", "9:5", "09:15:3", "9.15",
      "1.2:30", "12:3.0 pm",
      "12:00 xm", "am", " 2:30 pm ", "2:30p.m.m", "123:00", "2:30  PM", "a:30pm" }

FewDateCells == { NaN, Cell("1/1/2024"), Cell("31/02/2024"), Cell("tbd") }
FewTimeCells == { NaN, Cell("09:15"), Cell("25:00") }

\* the pairs <<date cell, time cell>> of one row: every date text with a few
\* times, and every time text with a few dates
ConvInputs ==
    ({ Cell(x) : x \in DateTexts \cup OddDateTexts } \X FewTimeCells)
    \cup (FewDateCells \X { Cell(x) : x \in TimeTexts \cup OddTimeTexts })

\* ------------------------------------------------------------ brand colours
WHITE == "#FFFFFF"
BLACK == "#000000"
GREY == "#939598"
BLUE == "#00AEDA"

HexDigits == "0123456789ABCDEF"

\* int(c, 16) of one digit, in either case
HexVal(c) == (CHOOSE i \in 1..Len(HexDigits) : LowerCh(Ch(HexDigits, i)) = LowerCh(c)) - 1

\* the three channels of "#RRGGBB"
_hex_to_rgb(h) ==
    LET x == IF h # "" /\ Head(h) = "#" THEN Tail(h) ELSE h
    IN  [k \in 1..3 |-> 16 * HexVal(Ch(x, 2 * k - 1)) + HexVal(Ch(x, 2 * k))]

\* "#%02X%02X%02X" % rgb, every channel in 0..255
_rgb_to_hex(rgb) ==
    LET X2(v) == Ch(HexDigits, (v \div 16) + 1) \o Ch(HexDigits, (v % 16) + 1)
    IN  "#" \o X2(rgb[1]) \o X2(rgb[2]) \o X2(rgb[3])

\* _mix(c1, c2, t) for t = num / den in 0..1: every channel is
\* int(round(a + (b - a) * t)), rounded half to even
_mix(c1, c2, num, den) ==
    LET a == _hex_to_rgb(c1)
        b == _hex_to_rgb(c2)
    IN  _rgb_to_hex([k \in 1..3 |-> RoundHalfEven(a[k] * den + (b[k] - a[k]) * num, den)])

\* np.linspace(0.06, 0.94, n), as the numerators xs(n, i) over the common
\* denominator grid(n); i counts from 1
grid(n) == IF n = 1 THEN 1000 ELSE 1000 * (n - 1)
xs(n, i) == IF n = 1 THEN 60 ELSE 60 * (n - 1) + 880 * (i - 1)

\* the colour at t = num / den: WHITE to BLUE up to 0.5, BLUE to BLACK beyond
gradient_colour(num, den) ==
    IF 2 * num <= den THEN _mix(WHITE, BLUE, 2 * num, den)
    ELSE _mix(BLUE, BLACK, 2 * num - den, den)

\* t + 0.001, clamped to 0.06 .. 0.94, as a numerator over grid(n)
nudged(n, i) ==
    LET unit == grid(n) \div 1000
        tj == xs(n, i) + unit
    IN  IF tj > 940 * unit THEN 940 * unit ELSE IF tj < 60 * unit THEN 60 * unit ELSE tj

\* the uniqueness pass over the first k sampled colours: a colour already
\* seen is sampled again at the nudged t, once
RECURSIVE enforce_unique(_, _)
enforce_unique(n, k) ==
    IF k = 0 THEN <<>>
    ELSE LET uniq == enforce_unique(n, k - 1)
             c == gradient_colour(xs(n, k), grid(n))
         IN  Append(uniq, IF \E j \in 1..(k - 1) : uniq[j] = c
                          THEN gradient_colour(nudged(n, k), grid(n)) ELSE c)

sample_brand_gradient(n) == IF n <= 0 THEN <<>> ELSE enforce_unique(n, n)

generate_brand_sequence(n) ==
    LET base == <<BLUE, GREY, BLACK>>
    IN  IF n <= Len(base) THEN SubSeq(base, 1, n)
        ELSE base \o sample_brand_gradient(n - Len(base))

\* list(dict.fromkeys(values)): the first k values without their repeats
RECURSIVE fromkeys(_, _)
fromkeys(v, k) ==
    IF k = 0 THEN <<>>
    ELSE IF \E j \in 1..(k - 1) : v[j] = v[k] THEN fromkeys(v, k - 1)
    ELSE Append(fromkeys(v, k - 1), v[k])

\* the lists of values a chart is coloured for: up to MaxValues labels, alone
\* or with one of them repeated
MaxValues == 12
ValueLists ==
    LET labels(k) == [i \in 1..k |-> "series " \o IntToStr(i)]
    IN  { labels(k) : k \in 0..MaxValues }
        \cup { labels(k) \o <<labels(k)[1]>> : k \in 1..MaxValues }
        \cup { <<labels(k)[k]>> \o labels(k) : k \in 1..MaxValues }

\* ---------------------------------------------------------------- load_data
\* A string of this module holds ASCII characters only; three of them stand
\* for the three code points normalize_colname replaces, and occur in no
\* header with their ASCII meaning.
EnDash == "~"
EmDash == "^"
NBSP == "_"

\* str.replace(old, new), old one character long
RECURSIVE replace(_, _, _)
replace(s, old, new) ==
    IF s = "" THEN ""
    ELSE (IF Head(s) = old THEN new ELSE Head(s)) \o replace(Tail(s), old, new)

\* re.sub(r"\s+", " ", s): every maximal run of whitespace becomes one space
RECURSIVE sub_whitespace(_)
sub_whitespace(s) ==
    IF s = "" THEN ""
    ELSE IF IsSpace(Head(s)) THEN " " \o sub_whitespace(LStrip(s))
    ELSE Head(s) \o sub_whitespace(Tail(s))

normalize_colname_KeepEmDash(c) ==
    Strip(sub_whitespace(replace(replace(c, EnDash, "-"), NBSP, " ")))

normalize_colname(c) ==
    Strip(sub_whitespace(
        replace(replace(replace(c, EnDash, "-"), EmDash, "-"), NBSP, " ")))

\* A table as load_data handles it: the columns in order, each a label and
\* its data (data is the position the column had in the file).
Column(label, data) == [label |-> label, data |-> data]

\* df.rename(columns={c: normalize_colname(c) for c in df.columns})
rename(cols) == [i \in 1..Len(cols) |-> Column(normalize_colname(cols[i].label), cols[i].data)]

\* pd.Series(df.columns).duplicated(): a label seen at an earlier position
duplicated(cols, i) == \E j \in 1..(i - 1) : cols[j].label = cols[i].label

\* df.loc[:, ~duplicated]
RECURSIVE drop_duplicated(_, _)
drop_duplicated(cols, k) ==
    IF k = 0 THEN <<>>
    ELSE IF duplicated(cols, k) THEN drop_duplicated(cols, k - 1)
    ELSE Append(drop_duplicated(cols, k - 1), cols[k])

\* the encodings read_csv is given, in the order of the loop (None first)
Encodings == <<"None", "utf-8", "utf-8-sig", "latin-1">>

\* header texts of a file: official labels and spellings of them
MaxCols == 3
HeaderTexts ==
    { "Type L0", "Type  L0", " Type L0", "Type_L0", "Type\tL0 ",
      "Raised On - Date", "Raised On ~ Date", "Raised On ^ Date", "Raised On_^_Date",
      "Raised On-Date", "_", "" }

\* the tables a file can hold: up to MaxCols columns of distinct labels (the
\* reader itself never returns two columns of one label)
RECURSIVE Headers(_)
Headers(n) ==
    IF n = 0 THEN { <<>> }
    ELSE LET shorter == Headers(n - 1)
         IN  shorter \cup
             { Append(h, x) : h \in { u \in shorter : Len(u) = n - 1 }, x \in HeaderTexts }

FileTables ==
    { [i \in 1..Len(h) |-> Column(h[i], i)] :
        h \in { u \in Headers(MaxCols) : \A i, j \in 1..Len(u) : i # j => u[i] # u[j] } }

\* what is given to load_data: no file (the demo CSV is fetched, or is not),
\* an Excel file (readable or not) or any other file, which read_csv can
\* decode under some of the encodings
FewTables == { t \in FileTables : Len(t) <= 1 }

Uploads ==
    { [kind |-> k, readable |-> r, table |-> t] :
        k \in {"none", "excel"}, r \in { {}, {1} }, t \in FewTables }
    \cup { [kind |-> "csv", readable |-> r, table |-> t] :
        r \in SUBSET (1..Len(Encodings)), t \in FewTables }
    \cup { [kind |-> "csv", readable |-> {2}, table |-> t] : t \in FileTables }

\* ----------------------------------------------------------- state machine
\* pc .. grp: the script; cpc .. out: one row of a call of combine_datetime;
\* lpc .. message: a call of load_data (ldf is its local df, <<>> while unbound);
\* kpc .. cmap: a call of brand_map_for
VARIABLES pc, df_raw, df, df_filtered, metrics, grp, changed, work,
          cpc, date_series, time_series, date_norm, time_norm, out,
          lpc, file, file_pos, enc, ldf, message,
          kpc, values, uniq_vals, cols, cmap

script_vars == <<pc, df_raw, df, df_filtered, metrics, grp, changed, work>>
conv_vars == <<cpc, date_series, time_series, date_norm, time_norm, out>>
load_vars == <<lpc, file, file_pos, enc, ldf, message>>
colour_vars == <<kpc, values, uniq_vals, cols, cmap>>
vars == <<pc, df_raw, df, df_filtered, metrics, grp, changed, work,
          cpc, date_series, time_series, date_norm, time_norm, out,
          lpc, file, file_pos, enc, ldf, message,
          kpc, values, uniq_vals, cols, cmap>>

\* no call of combine_datetime is followed
NoCall ==
    /\ cpc = "none" /\ date_series = NaN /\ time_series = NaN
    /\ date_norm = "" /\ time_norm = "" /\ out = NaT

\* no call of load_data is followed
NoLoad ==
    /\ lpc = "none" /\ file = <<>> /\ file_pos = 0 /\ enc = 0
    /\ ldf = <<>> /\ message = ""

\* no call of brand_map_for is followed
NoColours ==
    /\ kpc = "none" /\ values = <<>> /\ uniq_vals = <<>> /\ cols = <<>> /\ cmap = <<>>

\* the script after load_data has returned the register
Init ==
    /\ pc = "loaded"
    /\ df_raw \in InputTables
    /\ df = <<>>
    /\ df_filtered = <<>>
    /\ metrics = <<>>
    /\ grp = <<>>
    /\ changed = <<>>
    /\ work = <<>>
    /\ NoCall
    /\ NoLoad
    /\ NoColours

Preprocess_InPlace ==
    /\ pc = "loaded"
    /\ df' = preprocess(df_raw)
    /\ df_raw' = df'
    /\ pc' = "preprocessed"
    /\ UNCHANGED <<df_filtered, metrics, grp, changed, work>>
    /\ UNCHANGED <<conv_vars, load_vars, colour_vars>>

\* df = preprocess(df_raw)
Preprocess ==
    /\ pc = "loaded"
    /\ df' = preprocess(df_raw)
    /\ pc' = "preprocessed"
    /\ UNCHANGED <<df_raw, df_filtered, metrics, grp, changed, work>>
    /\ UNCHANGED <<conv_vars, load_vars, colour_vars>>

\* the choices the ten multiselects offer: any subset of each column's options
Selections(t) ==
    (SUBSET options(t, "Project Name")) \X (SUBSET options(t, "Current Status"))
    \X (SUBSET options(t, "Type L0")) \X (SUBSET options(t, "Type L1"))
    \X (SUBSET options(t, "Type L2")) \X (SUBSET options(t, "Tag 1"))
    \X (SUBSET options(t, "Tag 2")) \X (SUBSET options(t, "Raised By"))
    \X (SUBSET options(t, "Assigned Team")) \X (SUBSET options(t, "Assigned Team User"))

\* df_filtered = filtered_view(df), for any choice in the sidebar widgets
FilteredView ==
    /\ pc = "preprocessed"
    /\ \E sel \in Selections(df), date_rng \in DateRanges :
          df_filtered' = filtered_view(df, sel, date_rng)
    /\ pc' = "filtered"
    /\ UNCHANGED <<df_raw, df, metrics, grp, changed, work>>
    /\ UNCHANGED <<conv_vars, load_vars, colour_vars>>

\* the Overview tab: metrics_summary(df_filtered, theme)
Overview ==
    /\ pc = "filtered"
    /\ metrics' = metrics_summary(df_filtered)
    /\ pc' = "overview"
    /\ UNCHANGED <<df_raw, df, df_filtered, grp, changed, work>>
    /\ UNCHANGED <<conv_vars, load_vars, colour_vars>>

\* the Status tab: the rows changed in the chosen period, latest first.
\* "now" is pd.Timestamp.utcnow().tz_localize("UTC"); utcnow() is already
\* timezone-aware, and tz_localize of an aware Timestamp raises TypeError
\* where pandas enforces that: the script ends here, or goes on.
StatusTab ==
    /\ pc = "overview"
    /\ \/ pc' = "raised" /\ UNCHANGED changed
       \/ /\ \E period \in Periods, today \in Todays :
                changed' \in sort_values(
                    SelectRows(df_filtered, LAMBDA r : in_window(r, period, today)))
          /\ pc' = "status"
    /\ UNCHANGED <<df_raw, df, df_filtered, metrics, grp, work>>
    /\ UNCHANGED <<conv_vars, load_vars, colour_vars>>

\* the Project Status tab
ProjectStatus ==
    /\ pc = "status"
    /\ grp' = project_status(df_filtered)
    /\ pc' = "project_status"
    /\ UNCHANGED <<df_raw, df, df_filtered, metrics, changed, work>>
    /\ UNCHANGED <<conv_vars, load_vars, colour_vars>>

\* the SLA chart: work = df_filtered.copy(); work["SLA State"] = ...
SLAState ==
    /\ pc = "project_status"
    /\ work' = [i \in 1..Len(df_filtered) |->
                   ("SLA State" :> sla_state(df_filtered[i]["SLA Met"])) @@ df_filtered[i]]
    /\ pc' = "sla_state"
    /\ UNCHANGED <<df_raw, df, df_filtered, metrics, grp, changed>>
    /\ UNCHANGED <<conv_vars, load_vars, colour_vars>>

Next == Preprocess \/ FilteredView \/ Overview \/ StatusTab \/ ProjectStatus \/ SLAState

Spec == Init /\ [][Next]_vars

\* the enrichment alone, on every kind of row on its own, on the mixed
\* registers and on the registers one row short of the longest
DeriveTables ==
    { <<r>> : r \in TimingRows \cup RejectRows \cup CloseRows \cup CostRows \cup SparseRows }
    \cup MixedTables
    \cup TablesOver(RegisterRows, MaxRows - 1)

DeriveInit ==
    /\ pc = "loaded"
    /\ df_raw \in DeriveTables
    /\ df = <<>>
    /\ df_filtered = <<>>
    /\ metrics = <<>>
    /\ grp = <<>>
    /\ changed = <<>>
    /\ work = <<>>
    /\ NoCall
    /\ NoLoad
    /\ NoColours

DeriveNext == Preprocess

DeriveSpec == DeriveInit /\ [][DeriveNext]_vars

\* combine_datetime followed on one row, statement by statement
ConvInit ==
    /\ pc = "none" /\ df_raw = <<>> /\ df = <<>> /\ df_filtered = <<>>
    /\ metrics = <<>> /\ grp = <<>> /\ changed = <<>> /\ work = <<>>
    /\ cpc = "called"
    /\ \E x \in ConvInputs : date_series = x[1] /\ time_series = x[2]
    /\ date_norm = "" /\ time_norm = "" /\ out = NaT
    /\ NoLoad
    /\ NoColours

\* d = _normalize_series_date(date_series)   (date_norm is the code's d)
NormalizeDate ==
    /\ cpc = "called"
    /\ date_norm' = _normalize_series_date(date_series)
    /\ cpc' = "date_done"
    /\ UNCHANGED <<date_series, time_series, time_norm, out>>
    /\ UNCHANGED <<script_vars, load_vars, colour_vars>>

\* t = _normalize_series_time(time_series)   (time_norm is the code's t)
NormalizeTime ==
    /\ cpc = "date_done"
    /\ time_norm' = _normalize_series_time(time_series)
    /\ cpc' = "time_done"
    /\ UNCHANGED <<date_series, time_series, date_norm, out>>
    /\ UNCHANGED <<script_vars, load_vars, colour_vars>>

\* has_date, the default time, full, and out = pd.to_datetime(full, ...)
ToDatetime ==
    /\ cpc = "time_done"
    /\ out' = to_datetime(full_string(date_norm, time_norm))
    /\ cpc' = "returned"
    /\ UNCHANGED <<date_series, time_series, date_norm, time_norm>>
    /\ UNCHANGED <<script_vars, load_vars, colour_vars>>

ConvNext == NormalizeDate \/ NormalizeTime \/ ToDatetime

ConvSpec == ConvInit /\ [][ConvNext]_vars

\* load_data(file) followed statement by statement
LoadInit ==
    /\ pc = "none" /\ df_raw = <<>> /\ df = <<>> /\ df_filtered = <<>>
    /\ metrics = <<>> /\ grp = <<>> /\ changed = <<>> /\ work = <<>>
    /\ NoCall
    /\ lpc = "called"
    /\ file \in Uploads
    /\ file_pos \in {0, 1}
    /\ enc = 0
    /\ ldf = <<>>
    /\ message = ""
    /\ NoColours

\* file is None: df = pd.read_csv(default_path), or st.error and st.stop
ReadDemo ==
    /\ lpc = "called" /\ file.kind = "none"
    /\ IF 1 \in file.readable
       THEN ldf' = <<file.table>> /\ lpc' = "rename" /\ UNCHANGED message
       ELSE /\ message' = "No file uploaded and demo CSV not found in working directory."
            /\ lpc' = "stopped" /\ UNCHANGED ldf
    /\ UNCHANGED <<file, file_pos, enc>>
    /\ UNCHANGED <<script_vars, conv_vars, colour_vars>>

\* df = pd.read_excel(file); what it raises reaches the script, which reports
\* it and stops
ReadExcel ==
    /\ lpc = "called" /\ file.kind = "excel"
    /\ IF 1 \in file.readable
       THEN ldf' = <<file.table>> /\ lpc' = "rename" /\ UNCHANGED message
       ELSE /\ message' = "Failed to load data"
            /\ lpc' = "stopped" /\ UNCHANGED ldf
    /\ file_pos' = 1
    /\ UNCHANGED <<file, enc>>
    /\ UNCHANGED <<script_vars, conv_vars, colour_vars>>

\* for enc in [None, "utf-8", "utf-8-sig", "latin-1"]: the next encoding, or
\* the else branch of the loop once there is none left
NextEncoding ==
    /\ (lpc = "called" /\ file.kind = "csv") \/ lpc = "for"
    /\ IF enc < Len(Encodings)
       THEN enc' = enc + 1 /\ lpc' = "seek" /\ UNCHANGED message
       ELSE /\ message' = "Could not read the uploaded CSV with common encodings."
            /\ lpc' = "stopped" /\ UNCHANGED enc
    /\ UNCHANGED <<file, file_pos, ldf>>
    /\ UNCHANGED <<script_vars, conv_vars, colour_vars>>

Seek_NoRewind ==
    /\ lpc = "seek"
    /\ lpc' = "read"
    /\ UNCHANGED <<file, file_pos, enc, ldf, message>>
    /\ UNCHANGED <<script_vars, conv_vars, colour_vars>>

\* file.seek(0)
Seek ==
    /\ lpc = "seek"
    /\ file_pos' = 0
    /\ lpc' = "read"
    /\ UNCHANGED <<file, enc, ldf, message>>
    /\ UNCHANGED <<script_vars, conv_vars, colour_vars>>

\* df = pd.read_csv(file, encoding=enc): break with the table, or continue
\* on an exception; the reader finds the file's table only from its start
ReadCsv ==
    /\ lpc = "read"
    /\ IF enc \in file.readable /\ file_pos = 0
       THEN ldf' = <<file.table>> /\ lpc' = "rename"
       ELSE lpc' = "for" /\ UNCHANGED ldf
    /\ file_pos' = 1
    /\ UNCHANGED <<file, enc, message>>
    /\ UNCHANGED <<script_vars, conv_vars, colour_vars>>

\* df = df.rename(columns={c: normalize_colname(c) for c in df.columns})
Rename ==
    /\ lpc = "rename"
    /\ ldf' = <<rename(ldf[1])>>
    /\ lpc' = "dedupe"
    /\ UNCHANGED <<file, file_pos, enc, message>>
    /\ UNCHANGED <<script_vars, conv_vars, colour_vars>>

\* df = df.loc[:, ~pd.Series(df.columns).duplicated().values]; return df
DropDuplicates ==
    /\ lpc = "dedupe"
    /\ ldf' = <<drop_duplicated(ldf[1], Len(ldf[1]))>>
    /\ lpc' = "returned"
    /\ UNCHANGED <<file, file_pos, enc, message>>
    /\ UNCHANGED <<script_vars, conv_vars, colour_vars>>

LoadNext ==
    ReadDemo \/ ReadExcel \/ NextEncoding \/ Seek \/ ReadCsv \/ Rename \/ DropDuplicates

LoadSpec == LoadInit /\ [][LoadNext]_vars

\* brand_map_for(values) followed statement by statement
ColourInit ==
    /\ pc = "none" /\ df_raw = <<>> /\ df = <<>> /\ df_filtered = <<>>
    /\ metrics = <<>> /\ grp = <<>> /\ changed = <<>> /\ work = <<>>
    /\ NoCall
    /\ NoLoad
    /\ kpc = "called"
    /\ values \in ValueLists
    /\ uniq_vals = <<>>
    /\ cols = <<>>
    /\ cmap = <<>>

\* uniq_vals = list(dict.fromkeys(str(v) for v in values))
UniqueValues ==
    /\ kpc = "called"
    /\ uniq_vals' = fromkeys(values, Len(values))
    /\ kpc' = "unique"
    /\ UNCHANGED <<values, cols, cmap>>
    /\ UNCHANGED <<script_vars, conv_vars, load_vars>>

\* cols = generate_brand_sequence(len(uniq_vals))
GenerateSequence ==
    /\ kpc = "unique"
    /\ cols' = generate_brand_sequence(Len(uniq_vals))
    /\ kpc' = "sequence"
    /\ UNCHANGED <<values, uniq_vals, cmap>>
    /\ UNCHANGED <<script_vars, conv_vars, load_vars>>

\* return dict(zip(uniq_vals, cols)): the pairs up to the shorter list
ZipMap ==
    /\ kpc = "sequence"
    /\ cmap' = LET n == IF Len(cols) < Len(uniq_vals) THEN Len(cols) ELSE Len(uniq_vals)
               IN  [v \in { uniq_vals[i] : i \in 1..n } |->
                       cols[CHOOSE i \in 1..n :
                                /\ uniq_vals[i] = v
                                /\ \A j \in 1..n : uniq_vals[j] = v => j <= i]]
    /\ kpc' = "returned"
    /\ UNCHANGED <<values, uniq_vals, cols>>
    /\ UNCHANGED <<script_vars, conv_vars, load_vars>>

ColourNext == UniqueValues \/ GenerateSequence \/ ZipMap

ColourSpec == ColourInit /\ [][ColourNext]_vars

\* -------------------------------------------------------------- properties
\* The rows of the enriched table (none before preprocess has run).
Rows == { df[i] : i \in 1..Len(df) }

Present(v) == v # <<>>

RaisedAt(r) == r["_RaisedOnDT"]
DeadlineAt(r) == r["_DeadlineDT"]
RespondedAt(r) == r["_RespondedOnDT"]
RejectedAt(r) == r["_RejectedOnDT"]
ClosedAt(r) == r["_ClosedOnDT"]
EffectiveResolutionAt(r) == r["_EffectiveResolutionDT"]

\* instant a is strictly later than instant b (both present)
Later(a, b) == a[1][1] > b[1][1] \/ (a[1][1] = b[1][1] /\ a[1][2] > b[1][2])

\* a - b in seconds (both present); the duration columns hold this over 3600
Elapsed(a, b) == (a[1][1] - b[1][1]) * 86400 + (a[1][2] - b[1][2])

\* the response counts as a resolution: present, raised present, strictly later
ValidResponse(r) ==
    Present(RespondedAt(r)) /\ Present(RaisedAt(r)) /\ Later(RespondedAt(r), RaisedAt(r))

\* C1: EffectiveResolutionAt is ClosedAt whenever ClosedAt is present (even if
\* RespondedAt is later); otherwise RespondedAt when RespondedAt and RaisedAt
\* are present and RespondedAt > RaisedAt; otherwise absent.
C1_EffectiveResolution ==
    \A r \in Rows :
        /\ Present(ClosedAt(r)) => EffectiveResolutionAt(r) = ClosedAt(r)
        /\ (~Present(ClosedAt(r)) /\ ValidResponse(r))
              => EffectiveResolutionAt(r) = RespondedAt(r)
        /\ (~Present(ClosedAt(r)) /\ ~ValidResponse(r))
              => ~Present(EffectiveResolutionAt(r))

\* a closed row whose valid response is later than its closure
C1_Witness ==
    \E r \in Rows :
        /\ Present(ClosedAt(r)) /\ ValidResponse(r)
        /\ Later(RespondedAt(r), ClosedAt(r))
        /\ EffectiveResolutionAt(r) = ClosedAt(r)

\* C2: SLAMet is met (1.0) iff DeadlineAt and EffectiveResolutionAt are both
\* present and EffectiveResolutionAt <= DeadlineAt, missed (0.0) iff both are
\* present and EffectiveResolutionAt > DeadlineAt, and unknown (NaN, a value
\* other than 0.0) iff either is absent.
C2_SlaMet ==
    \A r \in Rows :
        LET both == Present(DeadlineAt(r)) /\ Present(EffectiveResolutionAt(r))
            sla == r["SLA Met"]
        IN  /\ sla \in {<<1>>, <<0>>, NaN}
            /\ sla = <<1>> <=> (both /\ ~Later(EffectiveResolutionAt(r), DeadlineAt(r)))
            /\ sla = <<0>> <=> (both /\ Later(EffectiveResolutionAt(r), DeadlineAt(r)))
            /\ sla = NaN <=> ~both

\* a row resolved exactly at its deadline, which counts as met
C2_Witness ==
    \E r \in Rows :
        /\ Present(DeadlineAt(r))
        /\ EffectiveResolutionAt(r) = DeadlineAt(r)
        /\ r["SLA Met"] = <<1>>

SlaMetCount(t) == Cardinality({ i \in 1..Len(t) : t[i]["SLA Met"] = <<1>> })
SlaKnownCount(t) == Cardinality({ i \in 1..Len(t) : t[i]["SLA Met"] # NaN })

ProjectsOf(t) == { t[i]["Project Name"][1] : i \in { j \in 1..Len(t) : Present(t[j]["Project Name"]) } }
RowsOfProject(t, p) == { i \in 1..Len(t) : t[i]["Project Name"] = <<p>> }
SlaMetIn(t, idx) == Cardinality({ i \in idx : t[i]["SLA Met"] = <<1>> })
SlaKnownIn(t, idx) == Cardinality({ i \in idx : t[i]["SLA Met"] # NaN })

\* C3: the SLA-met rate of metrics_summary is 100 * met / (met + missed), rows
\* with unknown SLAMet left out of the denominator, and missing (not 0) when no
\* row has a known SLAMet; the SLA_Met of every Project Status line is the
\* same quotient over the project's rows, to the one decimal the code rounds to.
C3_SlaRate ==
    /\ pc \in {"overview", "project_status"} =>
         LET met == SlaMetCount(df_filtered)
             known == SlaKnownCount(df_filtered)
         IN  IF known = 0
             THEN metrics.sla_rate = NaN /\ metrics.sla_tile = "-"
             ELSE /\ Present(metrics.sla_rate)
                  /\ metrics.sla_rate[1] * known = 100 * met * metrics.sla_rate[2]
                  /\ metrics.sla_tile # "-"
    /\ pc = "project_status" =>
         /\ DOMAIN grp = ProjectsOf(df_filtered)
         /\ \A p \in DOMAIN grp :
              LET idx == RowsOfProject(df_filtered, p)
                  met == SlaMetIn(df_filtered, idx)
                  known == SlaKnownIn(df_filtered, idx)
                  tenths == grp[p].SLA_Met
              IN  IF known = 0 THEN tenths = NaN
                  ELSE /\ Present(tenths)
                       /\ 2 * (tenths[1] * known - 1000 * met) <= known
                       /\ 2 * (1000 * met - tenths[1] * known) <= known

\* a register of three rows, one of them with unknown SLA: the rate is 1 of 2
C3_Witness ==
    /\ pc = "project_status"
    /\ Len(df_filtered) = 3
    /\ SlaKnownCount(df_filtered) = 2
    /\ SlaMetCount(df_filtered) = 1
    /\ metrics.sla_tile = "50.0%"
    /\ \E p \in DOMAIN grp : grp[p].SLA_Met = <<500>> /\ Cardinality(RowsOfProject(df_filtered, p)) = 3

\* the raw cell of a column that the register may not have
RawCell(r, col) == IF col \in DOMAIN r THEN r[col] ELSE NaN

\* the cell holds text with at least one character that is not white space
NonEmptyTrimmed(r, col) ==
    /\ Present(RawCell(r, col))
    /\ \E i \in 1..Len(RawCell(r, col)[1]) : ~IsSpace(Ch(RawCell(r, col)[1], i))

\* the maximal runs of word characters of a text
WordsOf(s) ==
    { SubSeq(s, i, j) : <<i, j>> \in
        { ij \in (1..Len(s)) \X (1..Len(s)) :
            /\ ij[1] <= ij[2]
            /\ \A k \in ij[1]..ij[2] : IsWordCh(Ch(s, k))
            /\ (ij[1] = 1 \/ ~IsWordCh(Ch(s, ij[1] - 1)))
            /\ (ij[2] = Len(s) \/ ~IsWordCh(Ch(s, ij[2] + 1))) } }

StatusSaysClosed(r) ==
    /\ Present(RawCell(r, "Current Status"))
    /\ WordsOf(Lower(RawCell(r, "Current Status")[1]))
         \cap {"closed", "approved", "resolved", "complete"} # {}

RejectEvidence(r) ==
    \/ Present(RejectedAt(r))
    \/ \E col \in {"Rejected By", "Rejected Comment", "Rejected On Date", "Rejected On Time"} :
         NonEmptyTrimmed(r, col)

CloseEvidence(r) ==
    \/ Present(ClosedAt(r))
    \/ StatusSaysClosed(r)
    \/ \E col \in {"Closed By", "Closed Comment", "Closed On Date", "Closed On Time"} :
         NonEmptyTrimmed(r, col)

\* C4: R2C (inferred) is true iff there is evidence of rejection (RejectedAt
\* present, or Rejected By / Rejected Comment / raw Rejected On Date / raw
\* Rejected On Time non-empty after trimming) and evidence of closure (ClosedAt
\* present, or Current Status holding closed/approved/resolved/complete as a
\* word in any case, or Closed By / Closed Comment / raw Closed On Date / raw
\* Closed On Time non-empty after trimming); the two instants are not compared.
C4_R2CInferred ==
    \A r \in Rows :
        /\ r["_R2C_Flag"] \in {0, 1}
        /\ r["_R2C_Flag"] = 1 <=> (RejectEvidence(r) /\ CloseEvidence(r))

\* a row that is R2C on text evidence alone, with neither instant
C4_Witness ==
    \E r \in Rows :
        /\ ~Present(RejectedAt(r)) /\ ~Present(ClosedAt(r))
        /\ StatusSaysClosed(r)
        /\ ~NonEmptyTrimmed(r, "Closed By") /\ ~NonEmptyTrimmed(r, "Closed Comment")
        /\ r["_R2C_Flag"] = 1

\* C5: R2CStrict is 1 exactly when RejectedAt and ClosedAt are both present,
\* and every R2CStrict row is also R2C (inferred).
C5_R2CStrict ==
    \A r \in Rows :
        /\ r["_R2C_Strict_Flag"] \in {0, 1}
        /\ r["_R2C_Strict_Flag"] = 1 <=> (Present(RejectedAt(r)) /\ Present(ClosedAt(r)))
        /\ r["_R2C_Strict_Flag"] = 1 => r["_R2C_Flag"] = 1

\* a strict row, and with it an inferred row
C5_Witness ==
    \E r \in Rows :
        /\ Present(RejectedAt(r)) /\ Present(ClosedAt(r))
        /\ r["_R2C_Strict_Flag"] = 1 /\ r["_R2C_Flag"] = 1

\* C6: the R2C duration is present iff R2CStrict holds; when present it is
\* max(ClosedAt - RejectedAt, 0), so it is never negative and is 0 when
\* RejectedAt is after ClosedAt.
C6_R2CDuration ==
    \A r \in Rows :
        LET dur == r["R2C Hours (>=0)"]
        IN  /\ Present(dur) <=> r["_R2C_Strict_Flag"] = 1
            /\ Present(dur) =>
                 LET diff == Elapsed(ClosedAt(r), RejectedAt(r))
                 IN  /\ dur[1] = IF diff > 0 THEN diff ELSE 0
                     /\ dur[1] >= 0
                     /\ Later(RejectedAt(r), ClosedAt(r)) => dur[1] = 0

\* a row rejected after it was closed, with a duration of exactly 0
C6_Witness ==
    \E r \in Rows :
        /\ Present(RejectedAt(r)) /\ Present(ClosedAt(r))
        /\ Later(RejectedAt(r), ClosedAt(r))
        /\ r["R2C Hours (>=0)"] = <<0>>

\* C7: RespondedNotClosed is 1 iff ClosedAt is absent, RespondedAt and
\* RaisedAt are present and RespondedAt > RaisedAt strictly; otherwise it is 0.
C7_RespondedNotClosed ==
    \A r \in Rows :
        /\ r["_RespondedNotClosed_Flag"] \in {0, 1}
        /\ r["_RespondedNotClosed_Flag"] = 1 <=>
             /\ ~Present(ClosedAt(r))
             /\ Present(RespondedAt(r)) /\ Present(RaisedAt(r))
             /\ Later(RespondedAt(r), RaisedAt(r))

\* a flagged row: answered after it was raised and never closed
C7_Witness ==
    \E r \in Rows :
        /\ r["_RespondedNotClosed_Flag"] = 1
        /\ ~Present(ClosedAt(r)) /\ Later(RespondedAt(r), RaisedAt(r))

\* C8 as stated: every RespondedNotClosed row has no evidence of closure at
\* all, so no row is both RespondedNotClosed and R2C (inferred).
C8_NoCloseEvidence ==
    \A r \in Rows :
        r["_RespondedNotClosed_Flag"] = 1 => (~CloseEvidence(r) /\ r["_R2C_Flag"] = 0)

\* C8, amended: every RespondedNotClosed row has ClosedAt absent, so it is
\* never R2CStrict and has no R2C duration; evidence of closure other than
\* the instant does not clear the flag.
C8_NoClosedAt ==
    \A r \in Rows :
        r["_RespondedNotClosed_Flag"] = 1 =>
            /\ ~Present(ClosedAt(r))
            /\ r["_R2C_Strict_Flag"] = 0
            /\ ~Present(r["R2C Hours (>=0)"])

\* a row that is RespondedNotClosed and R2C (inferred) at once
C8_Witness ==
    \E r \in Rows :
        /\ r["_RespondedNotClosed_Flag"] = 1
        /\ CloseEvidence(r)
        /\ r["_R2C_Flag"] = 1

\* C9: CloseAfterResponseTime is present iff EffectiveResolutionAt and
\* RespondedAt are both present and EffectiveResolutionAt >= RespondedAt; it
\* is then their difference, never negative, and it is absent when ClosedAt
\* precedes RespondedAt.
C9_CloseAfterResponse ==
    \A r \in Rows :
        LET car == r["Close After Response (Hrs)"]
            ends == Present(EffectiveResolutionAt(r)) /\ Present(RespondedAt(r))
        IN  /\ Present(car) <=> (ends /\ ~Later(RespondedAt(r), EffectiveResolutionAt(r)))
            /\ Present(car) =>
                 /\ car[1] = Elapsed(EffectiveResolutionAt(r), RespondedAt(r))
                 /\ car[1] >= 0
            /\ (Present(ClosedAt(r)) /\ Present(RespondedAt(r))
                  /\ Later(RespondedAt(r), ClosedAt(r))) => ~Present(car)

\* a row closed before it was responded to: the duration is absent
C9_Witness ==
    \E r \in Rows :
        /\ Present(ClosedAt(r)) /\ Present(RespondedAt(r))
        /\ Later(RespondedAt(r), ClosedAt(r))
        /\ ~Present(r["Close After Response (Hrs)"])

\* C10: ResponseTime is RespondedAt - RaisedAt and ClosureTime is
\* EffectiveResolutionAt - RaisedAt, each absent iff one of its endpoints is
\* absent; a negative difference is stored as it is.
C10_SignedDurations ==
    \A r \in Rows :
        LET rt == r["Responding Time (Hrs)"]
            ct == r["Computed Closure Time (Hrs)"]
        IN  /\ Present(rt) <=> (Present(RespondedAt(r)) /\ Present(RaisedAt(r)))
            /\ Present(rt) => rt[1] = Elapsed(RespondedAt(r), RaisedAt(r))
            /\ Present(ct) <=> (Present(EffectiveResolutionAt(r)) /\ Present(RaisedAt(r)))
            /\ Present(ct) => ct[1] = Elapsed(EffectiveResolutionAt(r), RaisedAt(r))

\* a row responded to and closed before it was raised: both durations negative
C10_Witness ==
    \E r \in Rows :
        /\ Present(r["Responding Time (Hrs)"]) /\ r["Responding Time (Hrs)"][1] < 0
        /\ Present(r["Computed Closure Time (Hrs)"]) /\ r["Computed Closure Time (Hrs)"][1] < 0

\* C11: a row whose resolution comes from the response (ClosedAt absent,
\* EffectiveResolutionAt present) has RaisedAt present and
\* EffectiveResolutionAt >= RaisedAt; a row resolved before it was raised
\* takes its resolution from ClosedAt.
C11_ResolvedAfterRaised ==
    \A r \in Rows :
        /\ (~Present(ClosedAt(r)) /\ Present(EffectiveResolutionAt(r))) =>
              /\ Present(RaisedAt(r))
              /\ ~Later(RaisedAt(r), EffectiveResolutionAt(r))
        /\ (Present(EffectiveResolutionAt(r)) /\ Present(RaisedAt(r))
              /\ Later(RaisedAt(r), EffectiveResolutionAt(r))) =>
              /\ Present(ClosedAt(r))
              /\ EffectiveResolutionAt(r) = ClosedAt(r)

\* a row closed before it was raised, its response earlier still
C11_Witness ==
    \E r \in Rows :
        /\ Present(ClosedAt(r)) /\ Present(RaisedAt(r)) /\ Present(RespondedAt(r))
        /\ Later(RaisedAt(r), ClosedAt(r))
        /\ Later(RaisedAt(r), RespondedAt(r))
        /\ EffectiveResolutionAt(r) = ClosedAt(r)

\* the four candidates of the last status change, in priority order
StatusCandidates(r) ==
    << ClosedAt(r), RejectedAt(r), RespondedAt(r), EffectiveResolutionAt(r) >>

StatusLabels == << "Closed", "Rejected", "Responded", "Effective" >>

\* C12: LastStatusChangeAt is the latest present instant among ClosedAt,
\* RejectedAt, RespondedAt and EffectiveResolutionAt, absent iff all four are
\* absent; LastStatusEvent is the label of the first candidate, in the order
\* Closed > Rejected > Responded > Effective, whose instant is that maximum.
C12_LastStatus ==
    \A r \in Rows :
        LET c == StatusCandidates(r)
            latest == r["_LastStatusChangeDT"]
            hits == { k \in 1..4 : Present(c[k]) /\ c[k] = latest }
        IN  /\ ~Present(latest) <=> \A k \in 1..4 : ~Present(c[k])
            /\ Present(latest) =>
                 /\ hits # {}
                 /\ \A k \in 1..4 : Present(c[k]) => ~Later(c[k], latest)
                 /\ r["_LastStatusEvent"] =
                      << StatusLabels[CHOOSE k \in hits : \A j \in hits : k <= j] >>

\* ClosedAt and RespondedAt tie for the maximum: the label is Closed
C12_Witness ==
    \E r \in Rows :
        /\ Present(ClosedAt(r)) /\ ClosedAt(r) = RespondedAt(r)
        /\ r["_LastStatusChangeDT"] = ClosedAt(r)
        /\ r["_LastStatusEvent"] = <<"Closed">>

\* ------------------------------------------- properties of the conversions
\* the text the normalisers are given for a cell
TextOf(cell) == IF Present(cell) THEN cell[1] ELSE "nan"

\* the fields of a text between the occurrences of a separator
RECURSIVE SplitAt(_, _)
SplitAt(s, sep) ==
    LET at == { i \in 1..Len(s) : Ch(s, i) = sep }
    IN  IF at = {} THEN <<s>>
        ELSE LET i == CHOOSE x \in at : \A y \in at : x <= y
             IN  <<SubSeq(s, 1, i - 1)>> \o SplitAt(SubSeq(s, i + 1, Len(s)), sep)

\* a run of lo to hi digits
IsNumber(f, lo, hi) == Len(f) \in lo..hi /\ AllDigits(f)

\* a date text read as the register's encodings describe it: day, month and
\* the year as written, for D/M/Y and D-M-Y (year of 2 to 4 digits) and Y-M-D
\* (year of 4 digits); <<>> for any other text
DateReading(text) ==
    LET s == Strip(text)
        fs == SplitAt(s, "/")
        fd == SplitAt(s, "-")
        dmy(f) == /\ Len(f) = 3 /\ IsNumber(f[1], 1, 2) /\ IsNumber(f[2], 1, 2)
                  /\ IsNumber(f[3], 2, 4)
        ymd(f) == /\ Len(f) = 3 /\ IsNumber(f[1], 4, 4) /\ IsNumber(f[2], 1, 2)
                  /\ IsNumber(f[3], 1, 2)
    IN  IF dmy(fs)
        THEN [order |-> "dmy", day |-> ToInt(fs[1]), month |-> ToInt(fs[2]), year |-> fs[3]]
        ELSE IF dmy(fd)
        THEN [order |-> "dmy", day |-> ToInt(fd[1]), month |-> ToInt(fd[2]), year |-> fd[3]]
        ELSE IF ymd(fd)
        THEN [order |-> "ymd", day |-> ToInt(fd[3]), month |-> ToInt(fd[2]), year |-> fd[1]]
        ELSE <<>>

\* the length of a month of the Gregorian calendar
MonthLength(y, m) ==
    CASE m \in {1, 3, 5, 7, 8, 10, 12} -> 31
      [] m \in {4, 6, 9, 11} -> 30
      [] OTHER -> IF y % 400 = 0 \/ (y % 4 = 0 /\ y % 100 # 0) THEN 29 ELSE 28

RealDate(y, m, dd) == y >= 1 /\ m \in 1..12 /\ dd \in 1..MonthLength(y, m)

\* a day and month that no year has: month outside 1..12, day 0, or a day
\* beyond the month's length in a leap year
NoSuchDay(m, dd) == m \notin 1..12 \/ dd \notin 1..MonthLength(2000, m)

YearLength(y) == MonthLength(y, 2) + 337

\* days from 1970-01-01 to the first day of year y, counted year by year
RECURSIVE YearStart(_)
YearStart(y) ==
    IF y = 1970 THEN 0
    ELSE IF y > 1970 THEN YearStart(y - 1) + YearLength(y - 1)
    ELSE YearStart(y + 1) - YearLength(y)

RECURSIVE MonthStart(_, _)
MonthStart(y, m) == IF m = 1 THEN 0 ELSE MonthStart(y, m - 1) + MonthLength(y, m - 1)

\* the instant y-m-dd hh:mi:ss as days since the epoch and second of the day
InstantOf(y, m, dd, hh, mi, ss) ==
    << YearStart(y) + MonthStart(y, m) + dd - 1, 3600 * hh + 60 * mi + ss >>

\* the numbers written in a canonical date YYYY-MM-DD or time HH:MM:SS
CanonYear(c) == ToInt(SubSeq(c, 1, 4))
CanonMonth(c) == ToInt(SubSeq(c, 6, 7))
CanonDay(c) == ToInt(SubSeq(c, 9, 10))
CanonHour(c) == ToInt(SubSeq(c, 1, 2))
CanonMinute(c) == ToInt(SubSeq(c, 4, 5))
CanonSecond(c) == ToInt(SubSeq(c, 7, 8))

\* a text of the shape YYYY-MM-DD
DateShaped(c) ==
    /\ Len(c) = 10 /\ Ch(c, 5) = "-" /\ Ch(c, 8) = "-"
    /\ \A i \in {1, 2, 3, 4, 6, 7, 9, 10} : IsDigit(Ch(c, i))

\* a text HH:MM:SS naming a time of the day
ClockShaped(c) ==
    /\ Len(c) = 8 /\ Ch(c, 3) = ":" /\ Ch(c, 6) = ":"
    /\ \A i \in {1, 2, 4, 5, 7, 8} : IsDigit(Ch(c, i))
    /\ CanonHour(c) <= 23 /\ CanonMinute(c) <= 59 /\ CanonSecond(c) <= 59

NamesRealDate(c) ==
    DateShaped(c) /\ RealDate(CanonYear(c), CanonMonth(c), CanonDay(c))

DateDone == cpc \in {"date_done", "time_done", "returned"}
TimeDone == cpc \in {"time_done", "returned"}

\* C13: an instant produced by combine_datetime is absent or a valid calendar
\* date-time (month 1..12, a day of that month and year, hour 0..23, minute
\* and second 0..59); a date text in a recognised encoding that is no calendar
\* date (month 13, 31/02) never yields a present instant.
C13_InstantValid ==
    cpc = "returned" =>
        /\ Present(out) =>
             /\ NamesRealDate(date_norm)
             /\ time_norm = "" \/ ClockShaped(time_norm)
             /\ out[1][2] \in 0..86399
             /\ out[1][2] = IF time_norm = "" THEN 0
                            ELSE 3600 * CanonHour(time_norm)
                                 + 60 * CanonMinute(time_norm) + CanonSecond(time_norm)
             /\ out[1][1] = InstantOf(CanonYear(date_norm), CanonMonth(date_norm),
                                      CanonDay(date_norm), 0, 0, 0)[1]
        /\ LET r == DateReading(TextOf(date_series))
           IN  (r # <<>> /\ NoSuchDay(r.month, r.day)) => ~Present(out)
        /\ (date_norm # "" /\ ~NamesRealDate(date_norm)) => ~Present(out)

\* 31 February in a recognised encoding: normalised, and no instant comes of it
C13_Witness ==
    /\ cpc = "returned"
    /\ DateReading(TextOf(date_series)) # <<>>
    /\ DateReading(TextOf(date_series)).day = 31
    /\ DateReading(TextOf(date_series)).month = 2
    /\ date_norm # ""
    /\ ~Present(out)

\* C14 as stated: _normalize_date_str returns the empty result for every text
\* in a recognised encoding that is no calendar date, and never returns a
\* YYYY-MM-DD text that is not a real calendar date.
C14_NoUnrealDate ==
    DateDone =>
        /\ LET r == DateReading(TextOf(date_series))
           IN  (r # <<>> /\ NoSuchDay(r.month, r.day)) => date_norm = ""
        /\ date_norm # "" => NamesRealDate(date_norm)

EndsWith(s, suf) == Len(s) >= Len(suf) /\ SubSeq(s, Len(s) - Len(suf) + 1, Len(s)) = suf

\* the spellings of am and pm, with or without periods
MeridiemSpellings ==
    { <<"am", "am">>, <<"a.m.", "am">>, <<"a.m", "am">>, <<"am.", "am">>,
      <<"pm", "pm">>, <<"p.m.", "pm">>, <<"p.m", "pm">>, <<"pm.", "pm">> }

\* H:MM or H:MM:SS as numbers, <<>> for any other text
ClockReading(core) ==
    LET f == SplitAt(core, ":")
    IN  IF /\ Len(f) \in {2, 3}
           /\ IsNumber(f[1], 1, 2) /\ IsNumber(f[2], 2, 2)
           /\ Len(f) = 3 => IsNumber(f[3], 2, 2)
        THEN [hour |-> ToInt(f[1]), minute |-> ToInt(f[2]),
              second |-> IF Len(f) = 3 THEN ToInt(f[3]) ELSE 0]
        ELSE <<>>

\* a time text read as the register's encodings describe it: H:MM[:SS] with
\* am or pm after it (any case, with or without periods), or H:MM[:SS] alone;
\* half is "am", "pm" or "" (24-hour); <<>> for any other text
TimeReading(text) ==
    LET s == Lower(Strip(text))
        sp == { p \in MeridiemSpellings : EndsWith(s, p[1]) }
    IN  IF sp = {}
        THEN (IF ClockReading(s) = <<>> THEN <<>>
              ELSE [clock |-> ClockReading(s), half |-> ""])
        ELSE LET p == CHOOSE x \in sp : TRUE
                 core == RStrip(SubSeq(s, 1, Len(s) - Len(p[1])))
             IN  IF ClockReading(core) = <<>> THEN <<>>
                 ELSE [clock |-> ClockReading(core), half |-> p[2]]

TwoDigits(n) == Ch(Digits, (n \div 10) + 1) \o Ch(Digits, (n % 10) + 1)

\* the canonical HH:MM:SS of a time of the day
CanonTime(hh, mi, ss) == TwoDigits(hh) \o ":" \o TwoDigits(mi) \o ":" \o TwoDigits(ss)

\* C15 as stated: _normalize_time_str gives the empty result for every 12-hour
\* text whose hour is greater than 12 ("13:00am", "13:00pm") and for every
\* text with hour > 23 or minute or second > 59.
C15_HourAbove12Rejected ==
    TimeDone =>
        LET r == TimeReading(TextOf(time_series))
        IN  r # <<>> =>
              /\ (r.half # "" /\ r.clock.hour > 12) => time_norm = ""
              /\ (r.clock.hour > 23 \/ r.clock.minute > 59 \/ r.clock.second > 59)
                    => time_norm = ""

\* the hour of the day of hour h of the am or pm half
HourOfDay(h, half) ==
    IF half = "pm" THEN (IF h = 12 THEN 12 ELSE h + 12)
    ELSE (IF h = 12 THEN 0 ELSE h)

\* C16: a 12-hour text with hour 1..12 (am/pm in any case, with or without
\* periods or seconds) and the 24-hour text of the same time of day normalise
\* to the same canonical HH:MM:SS: h pm is h+12 below 12, 12 pm is 12, 12 am
\* is 00, h am is h.
C16_TwelveHourClock ==
    TimeDone =>
        LET r == TimeReading(TextOf(time_series))
        IN  (r # <<>> /\ r.clock.minute <= 59 /\ r.clock.second <= 59) =>
              /\ (r.half # "" /\ r.clock.hour \in 1..12) =>
                    time_norm = CanonTime(HourOfDay(r.clock.hour, r.half),
                                          r.clock.minute, r.clock.second)
              /\ (r.half = "" /\ r.clock.hour <= 23) =>
                    time_norm = CanonTime(r.clock.hour, r.clock.minute, r.clock.second)

\* "12:30 a.m." with seconds or without: half past midnight
C16_Witness ==
    /\ cpc = "time_done"
    /\ TimeReading(TextOf(time_series)) # <<>>
    /\ TimeReading(TextOf(time_series)).half = "am"
    /\ TimeReading(TextOf(time_series)).clock.hour = 12
    /\ EndsWith(TextOf(time_series), " a.m.")
    /\ time_norm = "00:30:00"

FourDigits(n) == TwoDigits(n \div 100) \o TwoDigits(n % 100)

\* the canonical YYYY-MM-DD of a date
CanonDate(y, m, dd) == FourDigits(y) \o "-" \o TwoDigits(m) \o "-" \o TwoDigits(dd)

\* C17 as stated: in D/M/Y and D-M-Y texts the year is accepted only with 2 or
\* 4 digits; a two-digit year yy becomes 2000+yy below 70 and 1900+yy from 70
\* to 99; a year written with four digits is never altered.
C17_YearExpansion ==
    DateDone =>
        LET r == DateReading(TextOf(date_series))
            yy == ToInt(r.year)
        IN  (r # <<>> /\ r.order = "dmy") =>
              /\ Len(r.year) = 3 => date_norm = ""
              /\ Len(r.year) = 2 =>
                    /\ date_norm # ""
                    /\ CanonYear(date_norm) = IF yy < 70 THEN 2000 + yy ELSE 1900 + yy
              /\ Len(r.year) = 4 => (date_norm # "" => CanonYear(date_norm) = yy)

\* C18 as stated: every valid calendar date written D/M/Y, D-M-Y or Y-M-D with
\* a four-digit year (day and month of one or two digits) normalises to the
\* canonical YYYY-MM-DD of the same year, month and day, so the D/M/Y and
\* Y-M-D spellings of one date normalise to the same text.
C18_DateRoundTrip ==
    DateDone =>
        LET r == DateReading(TextOf(date_series))
        IN  (r # <<>> /\ Len(r.year) = 4 /\ RealDate(ToInt(r.year), r.month, r.day))
              => date_norm = CanonDate(ToInt(r.year), r.month, r.day)

\* a missing value as text, or a blank text
MissingText(text) == Strip(text) = "" \/ Lower(text) \in {"nan", "nat", "none"}

\* a date text in one of the recognised encodings: D/M/Y or D-M-Y with a year
\* of 2 or 4 digits, or Y-M-D
RecognisedDate(text) ==
    /\ DateReading(text) # <<>>
    /\ Len(DateReading(text).year) \in {2, 4}

RecognisedTime(text) == TimeReading(text) # <<>>

\* C19 as stated: the normalisers are total; each returns a canonical text or
\* the empty result, and a missing value ("nan", "nat", "none" in any case), a
\* blank text and a text in no recognised encoding always give the empty result.
C19_Total ==
    /\ DateDone =>
         /\ date_norm = "" \/ DateShaped(date_norm)
         /\ (MissingText(TextOf(date_series)) \/ ~RecognisedDate(TextOf(date_series)))
               => date_norm = ""
    /\ TimeDone =>
         /\ time_norm = "" \/ ClockShaped(time_norm)
         /\ (MissingText(TextOf(time_series)) \/ ~RecognisedTime(TextOf(time_series)))
               => time_norm = ""

\* the time of the day written in a canonical time, midnight for the empty one
SecondOfDay(c) ==
    IF c = "" THEN 0
    ELSE 3600 * CanonHour(c) + 60 * CanonMinute(c) + CanonSecond(c)

\* the instant of a canonical date of a year within the Timestamp range
DateAt(c, tm) ==
    << InstantOf(CanonYear(c), CanonMonth(c), CanonDay(c), 0, 0, 0)[1], SecondOfDay(tm) >>

\* C20 as stated: without a normalised date the instant is absent whatever the
\* time column holds; with a normalised date and no normalised time it is that
\* date at 00:00:00; with both it is that date at that time.
C20_DateThenTime ==
    cpc = "returned" =>
        /\ date_norm = "" => ~Present(out)
        /\ date_norm # "" =>
             /\ Present(out)
             /\ out[1] = DateAt(date_norm, time_norm)

\* C20, amended: without a normalised date the instant is absent; with one, the
\* date and the normalised time (00:00:00 when there is none) are parsed
\* strictly, giving that date at that time when they name a calendar instant
\* within the Timestamp range (1677-09-21 .. 2262-04-11), and absent otherwise.
C20_DateThenTimeOrAbsent ==
    cpc = "returned" =>
        /\ date_norm = "" => ~Present(out)
        /\ (NamesRealDate(date_norm) /\ CanonYear(date_norm) \in 1678..2261) =>
             /\ Present(out)
             /\ out[1] = DateAt(date_norm, time_norm)
        /\ (date_norm # "" /\ (~NamesRealDate(date_norm)
                                \/ CanonYear(date_norm) \notin 1677..2262))
             => ~Present(out)

\* a real date with a time text that is out of range: the date at midnight
C20_Witness ==
    /\ cpc = "returned"
    /\ Present(time_series) /\ ~MissingText(TextOf(time_series))
    /\ time_norm = ""
    /\ NamesRealDate(date_norm)
    /\ Present(out) /\ out[1] = DateAt(date_norm, "")

\* ------------------------------------------------ properties, second part
\* the number a raw cell holds, as a number or as the text of one; <<>> when
\* it holds none
NumberIn(cell) ==
    IF ~Present(cell) THEN <<>>
    ELSE IF Len(cell) = 2 THEN <<cell[2]>>
    ELSE IF Strip(cell[1]) # "" /\ AllDigits(Strip(cell[1])) THEN <<ToInt(Strip(cell[1]))>>
    ELSE <<>>

CostComponents == {"Labour Cost", "Material Cost", "Machinery Cost", "Other Cost"}

RECURSIVE SumOver(_, _)
SumOver(raw, among) ==
    IF among = {} THEN 0
    ELSE LET c == CHOOSE x \in among : TRUE
         IN  NumberIn(RawCell(raw, c))[1] + SumOver(raw, among \ {c})

\* C21: a raw Total Cost that is present and numeric is left as it is whatever
\* the components hold; otherwise Total Cost is the sum of the numeric ones
\* among Labour, Material, Machinery and Other Cost (the others are skipped),
\* and it stays missing when none of them is numeric.
C21_TotalCost ==
    pc # "loaded" =>
        \A i \in 1..Len(df) :
            LET raw == df_raw[i]
                total == df[i]["Total Cost"]
                numeric == { c \in CostComponents : NumberIn(RawCell(raw, c)) # <<>> }
            IN  IF NumberIn(RawCell(raw, "Total Cost")) # <<>>
                THEN total = Num(NumberIn(RawCell(raw, "Total Cost"))[1])
                ELSE IF numeric = {} THEN ~Present(total)
                ELSE total = Num(SumOver(raw, numeric))

\* no usable total, Labour 100 and Machinery 50 with the other two missing: 150
C21_Witness ==
    /\ pc = "preprocessed" /\ Len(df) = 1
    /\ NumberIn(RawCell(df_raw[1], "Total Cost")) = <<>>
    /\ NumberIn(RawCell(df_raw[1], "Labour Cost")) = <<100>>
    /\ ~Present(RawCell(df_raw[1], "Material Cost"))
    /\ NumberIn(RawCell(df_raw[1], "Machinery Cost")) = <<50>>
    /\ ~Present(RawCell(df_raw[1], "Other Cost"))
    /\ df[1]["Total Cost"] = Num(150)

\* ---- headers (load_data)
\* A character with the dash and the space it is a variant of put in its place.
PlainCh(c) == IF c \in {EnDash, EmDash} THEN "-" ELSE IF c = NBSP THEN " " ELSE c

BlankCh(c) == IsSpace(c) \/ c = NBSP

\* The words of a header: its maximal runs of non-blank characters, dashes
\* read as hyphens.  Two headers differ only by dash variant, kind of space,
\* length of whitespace runs and outer whitespace iff they have the same words.
RECURSIVE LabelWords(_, _)
LabelWords(h, word) ==
    IF h = "" THEN (IF word = "" THEN <<>> ELSE <<word>>)
    ELSE IF BlankCh(Head(h))
         THEN (IF word = "" THEN <<>> ELSE <<word>>) \o LabelWords(Tail(h), "")
         ELSE LabelWords(Tail(h), word \o PlainCh(Head(h)))

SameLabel(g, h) == LabelWords(g, "") = LabelWords(h, "")

\* the columns of the file's table, and of load_data's df, by position
FileCols == file.table
LoadedCols == ldf[1]

\* C22: headers that differ only by dash variant, kind of space, whitespace
\* runs or outer whitespace are renamed to one identical label, and renaming
\* a renamed label changes nothing; of the columns renamed to one label the
\* table load_data returns keeps exactly the first, in the file's order, so
\* its labels are pairwise distinct.
C22_Headers ==
    /\ lpc \in {"dedupe", "returned"} =>
          \A i, j \in 1..Len(FileCols) :
              SameLabel(FileCols[i].label, FileCols[j].label)
                  => normalize_colname(FileCols[i].label) = normalize_colname(FileCols[j].label)
    /\ lpc = "dedupe" =>
          /\ Len(LoadedCols) = Len(FileCols)
          /\ \A i \in 1..Len(LoadedCols) :
                /\ LoadedCols[i].data = i
                /\ normalize_colname(LoadedCols[i].label) = LoadedCols[i].label
                /\ \A j \in 1..Len(FileCols) :
                      SameLabel(FileCols[i].label, FileCols[j].label)
                          => LoadedCols[i].label = LoadedCols[j].label
    /\ lpc = "returned" =>
          /\ \A k \in 1..Len(FileCols) :
                (\E i \in 1..Len(LoadedCols) : LoadedCols[i].data = k)
                    <=> ~ \E j \in 1..(k - 1) :
                            normalize_colname(FileCols[j].label)
                                = normalize_colname(FileCols[k].label)
          /\ \A i \in 1..Len(LoadedCols) :
                /\ LoadedCols[i].data \in 1..Len(FileCols)
                /\ LoadedCols[i].label = normalize_colname(FileCols[LoadedCols[i].data].label)
          /\ \A i, j \in 1..Len(LoadedCols) :
                i < j => /\ LoadedCols[i].data < LoadedCols[j].data
                         /\ LoadedCols[i].label # LoadedCols[j].label

\* a file whose first and third headers differ by the dash and the spaces
\* only: the third column is dropped, the second kept
C22_Witness ==
    /\ lpc = "returned"
    /\ Len(FileCols) = 3
    /\ FileCols[1].label # FileCols[3].label
    /\ \E i \in 1..Len(FileCols[3].label) : Ch(FileCols[3].label, i) \in {EnDash, EmDash}
    /\ SameLabel(FileCols[1].label, FileCols[3].label)
    /\ ~SameLabel(FileCols[1].label, FileCols[2].label)
    /\ Len(LoadedCols) = 2
    /\ LoadedCols[1].data = 1 /\ LoadedCols[2].data = 2

\* ---- encodings (load_data)
IsCsv == lpc # "none" /\ file.kind = "csv"

\* the encodings under which the reader can parse the file
Decodable == { Encodings[k] : k \in file.readable }

Earlier(k) == { Encodings[j] : j \in 1..(k - 1) }

\* what holds in every state of a call on a file that is no Excel file
C28_State ==
    IsCsv =>
        /\ lpc \in {"seek", "read"} => enc \in 1..4 /\ Earlier(enc) \cap Decodable = {}
        /\ lpc = "read" => file_pos = 0
        /\ lpc \in {"called", "for", "seek", "read", "stopped"} => ldf = <<>>
        /\ lpc \in {"rename", "dedupe", "returned"} =>
              /\ enc \in 1..4
              /\ Encodings[enc] \in Decodable
              /\ Earlier(enc) \cap Decodable = {}
        /\ lpc = "rename" => ldf = <<file.table>>
        /\ lpc = "stopped" =>
              /\ Decodable = {}
              /\ enc = 4
              /\ message = "Could not read the uploaded CSV with common encodings."
        /\ lpc # "stopped" => message = ""

\* what holds of every step of such a call
C28_Step ==
    IsCsv =>
        /\ enc' # enc =>
              /\ enc' = enc + 1
              /\ lpc \in {"called", "for"} /\ lpc' = "seek"
              /\ <<"None", "utf-8", "utf-8-sig", "latin-1">>[enc'] = Encodings[enc']
        /\ lpc = "for" /\ enc < 4 => enc' = enc + 1
        /\ lpc' = "read" => lpc = "seek" /\ file_pos' = 0
        /\ lpc = "read" =>
              IF Encodings[enc] \in Decodable
              THEN lpc' = "rename" /\ ldf' = <<file.table>>
              ELSE lpc' = "for" /\ ldf' = <<>>
        /\ lpc' = "stopped" => lpc = "for" /\ enc = 4
        /\ file' = file

\* C28: a file that is no Excel file is parsed under default, utf-8,
\* utf-8-sig, latin-1 in that order, each attempt made from offset 0; the
\* first attempt that succeeds ends the loop and its table is the one
\* returned; the fatal error is reported only after four failures; and no
\* table is bound while attempts fail.
C28_Encodings == [](C28_State) /\ [][C28_Step]_vars

\* the third attempt succeeds after two failures on a file not at its start
C28_Witness ==
    /\ IsCsv
    /\ lpc = "rename"
    /\ enc = 3
    /\ file.readable = {3, 4}
    /\ ldf = <<file.table>>
    /\ Len(file.table) = 1

\* all four attempts have failed
C28_WitnessFatal ==
    /\ IsCsv
    /\ lpc = "stopped"
    /\ file.readable = {}
    /\ ldf = <<>>

\* ---- derivation applied again
\* the columns the derivation writes that the register's figures read
DerivedColumns ==
    { "_RaisedOnDT", "_DeadlineDT", "_RespondedOnDT", "_RejectedOnDT", "_ClosedOnDT",
      "_EffectiveResolutionDT", "Computed Closure Time (Hrs)", "Responding Time (Hrs)",
      "Close After Response (Hrs)", "_RespondedNotClosed_Flag", "SLA Met",
      "_R2C_Flag", "_R2C_Strict_Flag", "R2C Hours (>=0)",
      "_LastStatusChangeDT", "_LastStatusEvent", "Total Cost" }

\* C23: add_derived_columns applied to the table it has enriched gives, in
\* every row, the value the first application gave in every derived column
\* and in Total Cost (and adds or removes no column).
C23_Idempotent ==
    pc = "preprocessed" =>
        Bind(add_derived_columns(df), LAMBDA again :
            /\ Len(again) = Len(df)
            /\ \A i \in 1..Len(df) :
                  /\ DerivedColumns \subseteq DOMAIN df[i]
                  /\ DOMAIN again[i] = DOMAIN df[i]
                  /\ \A c \in DerivedColumns : again[i][c] = df[i][c])

\* a row whose total was written by the first application, over a text that
\* is a number, with numeric components present beside it
C23_Witness ==
    /\ pc = "preprocessed"
    /\ \E i \in 1..Len(df) :
          /\ RawCell(df_raw[i], "Total Cost") = Cell("75")
          /\ RawCell(df_raw[i], "Labour Cost") = Num(100)
          /\ df[i]["Total Cost"] = Num(75)
          /\ Present(df[i]["_RaisedOnDT"])
          /\ add_derived_row(df[i]) = df[i]

\* ---- columns the file lacks
\* the raw columns the derivation reads
ReferencedColumns ==
    { "Raised On Date", "Raised On Time", "Deadline Date", "Deadline Time",
      "Responded On Date", "Responded On Time", "Rejected On Date", "Rejected On Time",
      "Closed On Date", "Closed On Time", "Current Status",
      "Rejected By", "Rejected Comment", "Closed By", "Closed Comment",
      "Location Variable",
      "Labour Cost", "Material Cost", "Machinery Cost", "Other Cost", "Total Cost" }

\* the row with every referenced column it lacks added, holding no value
WithAllColumns(r) == r @@ [c \in ReferencedColumns |-> <<>>]

Lacks(r) == ReferencedColumns \ DOMAIN r

\* C24: whatever referenced columns the loaded table lacks, the derivation
\* yields a row for every row, and in it the derived values it yields when
\* those columns are there and hold no value; without a Closed On Date
\* column no row has a ClosedAt.
C24_MissingColumns ==
    pc = "preprocessed" =>
        /\ Len(df) = Len(df_raw)
        /\ \A i \in 1..Len(df) :
              /\ DerivedColumns \subseteq DOMAIN df[i]
              /\ Bind(add_derived_row(WithAllColumns(StripColumns(df_raw[i]))), LAMBDA full :
                    \A c \in DerivedColumns \cup {"Location Variable (Fixed)"} :
                        full[c] = df[i][c])
              /\ "Closed On Date" \in Lacks(df_raw[i]) => ~Present(df[i]["_ClosedOnDT"])

\* a file without the Closed On Date, Current Status and Rejected By/Comment
\* columns, whose Closed On Time and Closed By columns are there
C24_Witness ==
    /\ pc = "preprocessed"
    /\ Len(df) = 1
    /\ {"Closed On Date", "Current Status", "Rejected By", "Rejected Comment"}
           \subseteq Lacks(df_raw[1])
    /\ {"Closed On Time", "Closed By", "Rejected On Date"} \subseteq DOMAIN df_raw[1]
    /\ Present(RawCell(df_raw[1], "Closed On Time"))
    /\ ~Present(df[1]["_ClosedOnDT"])
    /\ df[1]["_R2C_Flag"] = 1
    /\ Present(df[1]["_RejectedOnDT"])
    /\ Present(df[1]["_EffectiveResolutionDT"])

\* ---- what the steps leave alone
\* one step of the script leaves the loaded table as it is, and leaves the
\* enriched table and the filtered view as they are once they are there
FrameStep ==
    /\ df_raw' = df_raw
    /\ pc # "loaded" => df' = df
    /\ pc \notin {"loaded", "preprocessed"} => df_filtered' = df_filtered

\* C25: the derivation leaves the loaded table unchanged, and after
\* preprocess no step (filtering, the period selection and the sort of the
\* Status tab, the aggregations, the SLA State helper column) changes a cell,
\* a column or the row order of the enriched table.
C25_Frame == [][FrameStep]_vars

\* every step has run on a register of several rows: the view is filtered,
\* the Status tab's rows are in another order than the enriched table's, the
\* helper column is in the copy only, and the loaded rows hold no derived column
C25_Witness ==
    /\ pc = "sla_state"
    /\ Len(df) >= 2
    /\ Len(df_filtered) = Len(df)
    /\ Len(changed) = Len(df)
    /\ changed # df_filtered
    /\ Len(work) = Len(df)
    /\ \A i \in 1..Len(df) :
          /\ "SLA State" \in DOMAIN work[i]
          /\ "SLA State" \notin DOMAIN df[i]
          /\ "SLA State" \notin DOMAIN df_filtered[i]
          /\ "_RaisedOnDT" \in DOMAIN df[i]
          /\ "_RaisedOnDT" \notin DOMAIN df_raw[i]
    /\ df = preprocess(df_raw)

\* ---- one row at a time
EventNames == {"Raised On", "Deadline", "Responded On", "Rejected On", "Closed On"}

InstantColumn(prefix) ==
    CASE prefix = "Raised On" -> "_RaisedOnDT"
      [] prefix = "Deadline" -> "_DeadlineDT"
      [] prefix = "Responded On" -> "_RespondedOnDT"
      [] prefix = "Rejected On" -> "_RejectedOnDT"
      [] prefix = "Closed On" -> "_ClosedOnDT"

\* the row's date cell of the event holds a text in no date encoding
Unparseable(r, prefix) ==
    /\ Present(RawCell(r, prefix \o " Date"))
    /\ DateReading(RawCell(r, prefix \o " Date")[1]) = <<>>

LatestOf(instants) ==
    LET there == { x \in instants : Present(x) }
    IN  IF there = {} THEN <<>>
        ELSE CHOOSE x \in there : \A y \in there : ~Later(y, x)

\* C29: no row's LastStatusEvent is "Effective": an EffectiveResolutionAt that
\* is present is the row's ClosedAt or its RespondedAt, so a label of higher
\* priority is chosen whenever it is the maximum, and LastStatusChangeAt is
\* the latest of ClosedAt, RejectedAt and RespondedAt alone.
C29_NeverEffective ==
    \A r \in Rows :
        /\ r["_LastStatusEvent"] # <<"Effective">>
        /\ Present(EffectiveResolutionAt(r)) =>
              EffectiveResolutionAt(r) \in {ClosedAt(r), RespondedAt(r)}
        /\ r["_LastStatusChangeDT"] = LatestOf({ClosedAt(r), RejectedAt(r), RespondedAt(r)})
        /\ Present(r["_LastStatusChangeDT"]) =>
              r["_LastStatusEvent"] \in {<<"Closed">>, <<"Rejected">>, <<"Responded">>}

\* a row that is not closed, whose EffectiveResolutionAt is its response and
\* the latest of its instants: the label is Responded
C29_Witness ==
    \E r \in Rows :
        /\ ~Present(ClosedAt(r))
        /\ Present(RejectedAt(r))
        /\ Present(EffectiveResolutionAt(r))
        /\ EffectiveResolutionAt(r) = RespondedAt(r)
        /\ Later(RespondedAt(r), RejectedAt(r))
        /\ r["_LastStatusChangeDT"] = EffectiveResolutionAt(r)
        /\ r["_LastStatusEvent"] = <<"Responded">>

\* ---- resolved and open
IsRespondedNotClosed(r) == r["_RespondedNotClosed_Flag"] = 1

Computed == pc \in {"overview", "raised", "status", "project_status", "sla_state"}

\* C30: a row has an EffectiveResolutionAt iff it has a ClosedAt or is
\* responded-not-closed, and never both; so the Resolved figure is the closed
\* rows plus the responded-not-closed rows of the view, no responded-not-closed
\* row is among the open ones, and Resolved + Open = Total.
C30_Resolved ==
    /\ \A r \in Rows :
          /\ ~(Present(ClosedAt(r)) /\ IsRespondedNotClosed(r))
          /\ Present(EffectiveResolutionAt(r))
                <=> (Present(ClosedAt(r)) \/ IsRespondedNotClosed(r))
    /\ Computed =>
          LET n == Len(df_filtered)
              closed == { i \in 1..n : Present(ClosedAt(df_filtered[i])) }
              rnc == { i \in 1..n : IsRespondedNotClosed(df_filtered[i]) }
          IN  /\ metrics.total_issues = n
              /\ metrics.resolved = Cardinality(closed) + Cardinality(rnc)
              /\ metrics.open_issues = n - Cardinality(closed \cup rnc)
              /\ metrics.resolved + metrics.open_issues = metrics.total_issues

\* a view of a closed row and a responded-not-closed row: both are resolved
C30_Witness ==
    /\ pc = "overview"
    /\ Len(df_filtered) = 2
    /\ Present(ClosedAt(df_filtered[2]))
    /\ IsRespondedNotClosed(df_filtered[1])
    /\ ~Present(ClosedAt(df_filtered[1]))
    /\ metrics.resolved = 2
    /\ metrics.open_issues = 0

\* ---- series colours
\* C27 as stated: the sequence generated for n values holds exactly n
\* colours, no two of them equal (no gradient colour repeats a gradient
\* colour or one of BLUE, GREY, BLACK), so the map gives distinct values
\* distinct colours.
C27_DistinctColours ==
    /\ kpc \in {"sequence", "returned"} =>
          /\ Len(cols) = Len(uniq_vals)
          /\ \A i, j \in 1..Len(cols) : i # j => cols[i] # cols[j]
          /\ \A i \in 4..Len(cols) : cols[i] \notin {"#00AEDA", "#939598", "#000000"}
    /\ kpc = "returned" =>
          /\ DOMAIN cmap = { values[i] : i \in 1..Len(values) }
          /\ \A v, w \in DOMAIN cmap : v # w => cmap[v] # cmap[w]
====
